---- MODULE Spec2Model ----
(***************************************************************************)
(* Verification model of BPSR-Meter: the API server's boss detector and    *)
(* pause accounting (src/src/main/index.ts, initializeApi), the device     *)
(* switch route, and the renderer's useDataFetching hook                   *)
(* (src/unnamed/part_000).                                                 *)
(*                                                                         *)
(* Nullable values (number | null, string | null) are modelled as          *)
(* sequences of length at most one: None is null, Some(x) is the value x.  *)
(***************************************************************************)
EXTENDS Integers, Sequences, FiniteSets, Bags, TLC

None == <<>>
Some(x) == <<x>>
Val(o) == o[1]

\* JavaScript truthiness of a nullable number: null and 0 are falsy.
Truthy(o) == o # None /\ Val(o) # 0

\* `x || null` on a nullable number.
OrNull(o) == IF Truthy(o) THEN o ELSE None

Max(a, b) == IF a >= b THEN a ELSE b

MinOf(S) == CHOOSE x \in S : \A y \in S : x <= y

(***************************************************************************)
(* Program constants                                                       *)
(***************************************************************************)
BOSS_IDS == {783, 425, 185, 38, 103588, 1985, 15179, 146, 15395, 15323,
             15269, 15159, 15202, 87, 147}

BOSS_LOST_GRACE_MS == 5000
\* setTimeout(..., 10000) after the fork of server.js
SERVER_TIMEOUT_MS == 10000
\* findAvailablePort: `let port = 8989` and `if (port > 9000) throw`
FIRST_PORT == 8989
LAST_PORT == 9000

(***************************************************************************)
(* Bounds of the model                                                     *)
(***************************************************************************)
\* Date.now() never exceeds MaxTime in a checked behaviour of the server, nor
\* MaxHookTime in one of the renderer's hook.
MaxTime == 7501
MaxHookTime == 2501
\* Largest cumulative total an enemy or player record reaches.
MaxTotal == 2
\* Largest number of suspended continuations of one kind (a handler that is
\* waiting at an await).
MaxPending == 1
\* Largest damage total the fight polled by the hook reaches.
MaxHits == 1
\* Largest number of fetchData calls in flight, and of togglePause calls.
MaxPolls == 2
MaxToggles == 1
\* Largest number of POST /api/device requests in flight.
MaxRequests == 2
\* Largest damage total of the player whose damage statistics are followed.
MaxStatTotal == 4
\* Largest number of messages the server sends split into two segments, and
\* of segment arrivals at the reassembler.
MaxSplit == 1
MaxSegments == 3
\* Largest number of whole messages the decoder is fed in a row.
MaxMessages == 3
\* Largest number of open-window requests waiting for loadWindowSizes(), and
\* of child windows created in one run.
\* Largest number of players in a polled table, and largest value of a
\* player's damage, healing and damage-taken totals there.
MaxPlayers == 12
MaxKey == 2
\* Largest damage total of the enemy table computeActiveEnemy is applied to.
MaxEnemyTotal == 3
\* Largest number of window saves in flight at once.
MaxSaves == 2
MaxOpens == 2
MaxWindows == 3
\* Date.now() never exceeds MaxLaunchTime while the server child is awaited,
\* and at most MaxChunks chunks of its stdout are read.
MaxLaunchTime == 12501
MaxChunks == 2

\* windowType: "main" | "group" | "history" | "device" | "settings"
WindowTypes == {"main", "group", "history", "device", "settings"}

\* An entry of settings.windowSizes: each key present (Some) or not (None).
\* A window without an entry reads as the entry with no key (`|| {}`).
NoEntry == [width |-> None, height |-> None, scale |-> None, x |-> None, y |-> None]

\* {} with `windowSizes` created: no entry for any window, no other key.
EmptySettings == [windowSizes |-> [t \in WindowTypes |-> NoEntry], selectedDevice |-> None]

\* settings.json when the main process starts: the main and group window
\* entries saved by an earlier run and a key of another writer.
SettingsAtStart ==
    [windowSizes |-> [t \in WindowTypes |->
                         IF t = "main"
                         THEN [NoEntry EXCEPT !.width = Some(650), !.height = Some(700)]
                         ELSE IF t = "group"
                         THEN [NoEntry EXCEPT !.width = Some(480), !.height = Some(530)]
                         ELSE NoEntry],
     selectedDevice |-> Some("0")]

\* createWindow right after fork(serverPath): the main window exists, the
\* timeout is armed and nothing has been read from the child's stdout.
\* loads lists the pages loaded into the main window; seen and chunks are
\* history of the stdout chunks read.
NewLaunch ==
    [forkedAt |-> 1, mainWindow |-> TRUE, serverLoaded |-> FALSE, timer |-> "armed",
     loads |-> <<>>, seen |-> FALSE, chunks |-> 0]

\* key: "group" | "history" | "device" | "settings"
WindowKinds == {"group", "history", "device", "settings"}

\* Amounts by which Date.now() advances between two callbacks.
ClockSteps == {BOSS_LOST_GRACE_MS \div 2}
\* totalPausedMs as settings.json holds it when the server starts (the pause
\* route persists the settings so that they survive restarts).
PersistedPausedMs == {0} \cup ClockSteps
\* Enemy ids seen on the wire: two bosses of BOSS_IDS and one ordinary enemy.
EnemyIds == {425, 783, 999}
\* The name an EntityInfo event carries for an enemy id.
EnemyName(id) == CASE id = 425 -> "Tina" [] id = 783 -> "Goblin" [] OTHER -> "Dummy"
\* The enemy of the fight the whole-server specification replays.
FightIds == {783}
\* The views fetchData's nearby/solo branch serves (the viewMode option).
ViewModes == {"nearby", "solo"}
\* Capture devices a POST /api/device body names.
DeviceIds == {"0", "1"}
\* Player uids seen on the wire.
Uids == {100}
\* Damage amounts carried by a DamageDealt event.
Amounts == {1}

VARIABLES
    now,              \* Date.now()
    enemies,          \* userDataManager: enemy id -> [name, type, total]
    users,            \* userDataManager: uid -> [name, total_damage, total_healing, taken_damage]
    startTime,        \* userDataManager.startTime
    inBossEncounter, activeBossId, activeBossName, lastBossSeenAt,
    grace,            \* history: the last tick of this encounter missed the boss
    isPaused, lastPausedAt, lastResumedAt, totalPausedMs,   \* globalSettings
    pending,          \* suspended continuations: kind -> count
    out,              \* what the last step sent: broadcasts, a response, calls
    pauseBase,        \* history: the pause request a following resume is paired with
    options,          \* useDataFetching options (props of the hook)
    hook,             \* useDataFetching state and refs, and its poll timer
    polls,            \* fetchData calls in flight (a bag), each with its closure
    toggles,          \* togglePause calls in flight (a bag)
    sync,             \* the mount-time GET /api/pause of the hook
    selectedDevice,   \* globalSettings.selectedDevice
    deviceReqs,       \* POST /api/device handlers in flight (a bag)
    sniffer,          \* the capture source: calls in progress, device captured
    stats,            \* damage statistics of one player, fresh at the start
    sent,             \* history: the bytes the server has sent on the flow
    wire,             \* the TCP segments sent: [seq, bytes]
    arrivals,         \* history: the seq of each segment arrival, in order
    flow,             \* the reassembler's state for the flow
    events,           \* the events decoded from the flow, in order
    childRef,         \* groupWindow, historyWindow, deviceWindow, settingsWindow
    liveWindows,      \* the child windows that exist: [id, key]
    created,          \* history: the number of child windows created so far
    opens,            \* openChildWindow calls suspended at loadWindowSizes() (a bag)
    launch,           \* createWindow after the fork: mainWindow, serverLoaded, timer
    search,           \* a findAvailablePort() call: its port, its stage, the probes made
    settingsFile,     \* settings.json of the main process, parsed (None: no file)
    saves,            \* saveWindowSize / saveWindowPosition calls in flight (a bag)
    manualGroup       \* globalSettings.manualGroup (None: undefined)

storeVars == <<enemies, users, startTime>>
bossVars == <<inBossEncounter, activeBossId, activeBossName, lastBossSeenAt, grace>>
pauseVars == <<isPaused, lastPausedAt, lastResumedAt, totalPausedMs>>
serverVars == <<now, storeVars, bossVars, pauseVars, pending, out, pauseBase>>

rendererVars == <<options, hook, polls, toggles, sync>>

deviceVars == <<selectedDevice, deviceReqs, sniffer>>
\* Everything outside the API server's encounter, pause and store state.
\* The packet pipeline in front of the store, and the statistics of one player.
pipelineVars == <<stats, sent, wire, arrivals, flow, events>>
\* The Electron main process: its child windows.
windowVars == <<childRef, liveWindows, created, opens>>
launchVars == <<launch>>
portVars == <<search>>
fileVars == <<settingsFile, saves>>
shellVars == <<windowVars, launchVars, portVars, fileVars>>
\* The API server's manual group.
groupVars == <<manualGroup>>
clientVars == <<rendererVars, deviceVars, pipelineVars, shellVars, groupVars>>

vars == <<serverVars, rendererVars, deviceVars, pipelineVars, shellVars, groupVars>>

NoOut == [kind |-> "none"]
\* Calls in flight are kept as bags: which call is which does not matter.
BagAdd(B, e) == B (+) SetToBag({e})
BagRemove(B, e) == B (-) SetToBag({e})
PendingKinds == {"boss", "reset", "clear"}

(***************************************************************************)
(* Aggregation store (userDataManager)                                     *)
(***************************************************************************)
NewEnemy == [name |-> "", type |-> None, total |-> 0]
NewUser == [name |-> "", profession |-> "", total_damage |-> 0, total_healing |-> 0,
            taken_damage |-> 0]

EnemyOf(tbl, id) == IF id \in DOMAIN tbl THEN tbl[id] ELSE NewEnemy
UserOf(tbl, uid) == IF uid \in DOMAIN tbl THEN tbl[uid] ELSE NewUser

\* Put record r under key k, creating the entry when the key is unseen.
Put(tbl, k, r) == [i \in DOMAIN tbl \cup {k} |-> IF i = k THEN r ELSE tbl[i]]

EmptyTable == [i \in {} |-> NewEnemy]

\* resetStatistics(): zero the numeric fields, keep the records and identities.
ResetEnemies(tbl) == [i \in DOMAIN tbl |-> [tbl[i] EXCEPT !.total = 0]]
ResetUsers(tbl) ==
    [i \in DOMAIN tbl |->
        [tbl[i] EXCEPT !.total_damage = 0, !.total_healing = 0, !.taken_damage = 0]]

getAllEnemiesData == enemies
getAllUsersData == users

\* A fresh player's damage statistics: the category split and the total.
NewStats == [normal |-> 0, critical |-> 0, lucky |-> 0, crit_lucky |-> 0,
             hpLessen |-> 0, total |-> 0]

\* A flow nothing has arrived on: the next expected sequence number, the
\* out-of-order buffer (seq -> bytes) and the partial-message carry-over.
NewFlow == [expected |-> 0, buffer |-> [q \in {} |-> <<>>], carry |-> <<>>]

\* The hook at mount: its useState and useRef initial values.
InitHook ==
    [isPaused |-> FALSE, lastPausedAt |-> None, totalPausedMs |-> 0,
     startTime |-> 1, encounterStartTime |-> None,
     activeBossId |-> None, activeBossName |-> None,
     activeEnemyId |-> None, activeEnemyName |-> None,
     pausedBaselineMs |-> 0, lastStartTime |-> 0, lastTotalDamage |-> 0,
     players |-> <<>>, isLoading |-> TRUE, timerArmed |-> TRUE]

Init ==
    /\ now = 1
    /\ enemies = EmptyTable
    /\ users = EmptyTable
    /\ startTime = 1
    /\ inBossEncounter = FALSE
    /\ activeBossId = None
    /\ activeBossName = None
    /\ lastBossSeenAt = None
    /\ grace = FALSE
    /\ isPaused = FALSE
    /\ lastPausedAt = None
    /\ lastResumedAt = None
    /\ totalPausedMs \in PersistedPausedMs
    /\ pending = [k \in PendingKinds |-> 0]
    /\ out = NoOut
    /\ pauseBase = None
    /\ options \in [viewMode : ViewModes, sortColumn : {"totalDmg"},
                    sortDirection : {"desc"}, showAllPlayers : {FALSE}]
    /\ hook = InitHook
    /\ polls = EmptyBag
    /\ toggles = EmptyBag
    /\ sync = [stage |-> "sent", resp |-> None]
    /\ stats = NewStats
    /\ sent = <<>>
    /\ wire = {}
    /\ arrivals = <<>>
    /\ flow = NewFlow
    /\ events = <<>>
    /\ selectedDevice = None
    /\ deviceReqs = EmptyBag
    /\ sniffer = [capturing |-> Some("auto"), stopping |-> 0, starting |-> 0,
                  stoppedSinceStart |-> FALSE]
    /\ childRef = [k \in WindowKinds |-> None]
    /\ liveWindows = {}
    /\ created = 0
    /\ opens = EmptyBag
    /\ launch = NewLaunch
    /\ search = [status |-> "idle", port |-> FIRST_PORT, probed |-> <<>>]
    /\ settingsFile = Some(SettingsAtStart)
    /\ saves = EmptyBag
    /\ manualGroup = None

\* Time passes between two callbacks of the event loop. A clock step is long
\* (seconds): a handler suspended at an await resumes before it has passed.
Advance(d, limit) ==
    /\ now + d <= limit
    /\ \A k \in PendingKinds : pending[k] = 0
    /\ now' = now + d
    /\ out' = NoOut
    /\ UNCHANGED <<storeVars, bossVars, pauseVars, pending, pauseBase>>

\* A decoded DamageDealt event: a player hits an enemy.
DamageDealt(uid, eid, amt, limit) ==
    /\ EnemyOf(enemies, eid).total + amt <= limit
    /\ UserOf(users, uid).total_damage + amt <= limit
    /\ enemies' = Put(enemies, eid,
                      [EnemyOf(enemies, eid) EXCEPT !.total = @ + amt])
    /\ users' = Put(users, uid,
                    [UserOf(users, uid) EXCEPT !.total_damage = @ + amt])
    /\ out' = NoOut
    /\ UNCHANGED <<now, startTime, bossVars, pauseVars, pending, pauseBase>>

\* A decoded EntityInfo event telling a player's profession.
PlayerInfo(uid, profession) ==
    /\ UserOf(users, uid).profession # profession
    /\ users' = Put(users, uid, [UserOf(users, uid) EXCEPT !.profession = profession])
    /\ out' = NoOut
    /\ UNCHANGED <<now, enemies, startTime, bossVars, pauseVars, pending, pauseBase>>

\* A decoded EntityInfo event naming an enemy.
EntityInfo(eid) ==
    /\ EnemyOf(enemies, eid).name # EnemyName(eid)
    /\ enemies' = Put(enemies, eid,
                      [EnemyOf(enemies, eid) EXCEPT !.name = EnemyName(eid),
                                                     !.type = Some("monster")])
    /\ out' = NoOut
    /\ UNCHANGED <<now, users, startTime, bossVars, pauseVars, pending, pauseBase>>

(***************************************************************************)
(* computeActiveEnemy: the enemy with the highest total damage > 0         *)
(***************************************************************************)
\* Mutant of computeActiveEnemy: the sort by total dropped, the first entry
\* with combat taken.
computeFirstEnemy(tbl) ==
    LET entries == {i \in DOMAIN tbl : tbl[i].total > 0}
        eid == MinOf(entries)
        e == tbl[eid]
    IN  IF entries = {} THEN None
        ELSE Some([id |-> eid,
                   name |-> IF e.name # "" THEN e.name ELSE ToString(eid),
                   type |-> e.type,
                   isBoss |-> eid \in BOSS_IDS])

\* Object.entries lists integer keys in ascending order and the sort is
\* stable, so among the enemies of maximal total the smallest id is first.
\* The store's isBoss flag of an enemy is its id's membership in the boss-id
\* set.
computeActiveEnemy(tbl) ==
    LET entries == {i \in DOMAIN tbl : tbl[i].total > 0}
        top == {i \in entries : \A j \in entries : tbl[i].total >= tbl[j].total}
        eid == MinOf(top)
        e == tbl[eid]
    IN  IF entries = {} THEN None
        ELSE Some([id |-> eid,
                   name |-> IF e.name # "" THEN e.name ELSE ToString(eid),
                   type |-> e.type,
                   isBoss |-> eid \in BOSS_IDS])

\* The activeEnemy* fields every payload carries (`ae?.x ?? null`).
ActiveEnemyFields(tbl) ==
    LET ae == computeActiveEnemy(tbl)
    IN  [activeEnemyId |-> IF ae = None THEN None ELSE Some(Val(ae).id),
         activeEnemyName |-> IF ae = None THEN None ELSE Some(Val(ae).name),
         activeEnemyType |-> IF ae = None THEN None ELSE Val(ae).type,
         activeEnemyIsBoss |-> IF ae = None THEN FALSE ELSE Val(ae).isBoss]

(***************************************************************************)
(* Boss detection and data broadcast interval (setInterval, 100 ms)        *)
(***************************************************************************)
\* Mutant of BossWithCombatIds: the hasCombat test dropped.
BossIdsAnyTotal(tbl) == {i \in DOMAIN tbl : i \in BOSS_IDS}

\* Mutant of BossWithCombatIds: the BOSS_IDS test dropped.
AnyCombatIds(tbl) == {i \in DOMAIN tbl : tbl[i].total > 0}

\* entries.find(isBoss && hasCombat): the ids that qualify.
BossWithCombatIds(tbl) == {i \in DOMAIN tbl : i \in BOSS_IDS /\ tbl[i].total > 0}

\* activeBossName = name || String(activeBossId)
BossNameOf(tbl, id) == IF tbl[id].name # "" THEN tbl[id].name ELSE ToString(id)

\* Mutant of bossStillSeen: an entry with total 0 no longer counts.
bossStillInCombat(tbl, bossId) ==
    bossId # None /\ Val(bossId) \in DOMAIN tbl /\ tbl[Val(bossId)].total > 0

\* entries.some(id === activeBossId)
bossStillSeen(tbl, bossId) == bossId # None /\ Val(bossId) \in DOMAIN tbl

\* Mutant of BossLost: the grace window closed at its last millisecond (>=).
BossLostAtGrace(t, seenAt) == Truthy(seenAt) /\ t - Val(seenAt) >= BOSS_LOST_GRACE_MS

\* lastBossSeenAt && now - lastBossSeenAt > BOSS_LOST_GRACE_MS
BossLost(t, seenAt) == Truthy(seenAt) /\ t - Val(seenAt) > BOSS_LOST_GRACE_MS

\* The payload of io.emit("data", data).
DataPayload(usr, tbl, bossId, bossName) ==
    [code |-> 0, user |-> usr, activeBossId |-> bossId, activeBossName |-> bossName,
     activeEnemy |-> ActiveEnemyFields(tbl)]

\* Mutant of Broadcast: the isPaused test dropped.
BroadcastAlways(paused, payload) == <<payload>>

\* if (!globalSettings.isPaused) io.emit("data", ...)
Broadcast(paused, payload) == IF paused THEN <<>> ELSE <<payload>>

\* if (!inBossEncounter) { ... if (bossWithCombat) { ... } }: the branch that
\* starts an encounter and calls resetStatistics().
EntersEncounter(inEnc, cands) == ~inEnc /\ cands # {}

\* Mutant of ResetCalls: the reset moved out of the !inBossEncounter branch.
ResetCallsWheneverCombat(inEnc, cands) == IF cands # {} THEN 1 ELSE 0

\* The number of userDataManager.resetStatistics() calls the detector makes
\* on a tick that found the candidates cands.
ResetCalls(inEnc, cands) == IF EntersEncounter(inEnc, cands) THEN 1 ELSE 0

\* Mutant of RefreshSeen: the timestamp of the encounter's start is kept.
RefreshSeenNever(seen, t, prev) == prev

\* if (bossStillSeen) lastBossSeenAt = now
RefreshSeen(seen, t, prev) == IF seen THEN Some(t) ELSE prev

\* The state of the encounter machine: GracePeriod is Active after a tick that
\* missed the boss.
EncounterState ==
    IF ~inBossEncounter THEN "Idle" ELSE IF grace THEN "GracePeriod" ELSE "Active"

\* The synchronous run of the interval callback. On entering an encounter it
\* calls userDataManager.resetStatistics() inside an async function and goes
\* on to the broadcast; what follows the await is BossResetContinuation.
Tick ==
    LET cands == BossWithCombatIds(getAllEnemiesData)
        enter == EntersEncounter(inBossEncounter, cands)
        calls == ResetCalls(inBossEncounter, cands)
        bossId == MinOf(cands)
        seen == bossStillSeen(getAllEnemiesData, activeBossId)
        lost == inBossEncounter /\ ~seen /\ BossLost(now, lastBossSeenAt)
    IN  /\ pending["boss"] + calls <= MaxPending
        /\ inBossEncounter' = IF enter THEN TRUE ELSE IF lost THEN FALSE ELSE inBossEncounter
        /\ activeBossId' = IF enter THEN Some(bossId) ELSE IF lost THEN None ELSE activeBossId
        /\ activeBossName' = IF enter THEN Some(BossNameOf(enemies, bossId))
                             ELSE IF lost THEN None ELSE activeBossName
        /\ lastBossSeenAt' = IF enter THEN Some(now)
                             ELSE IF ~inBossEncounter THEN lastBossSeenAt
                             ELSE IF lost THEN None
                             ELSE RefreshSeen(seen, now, lastBossSeenAt)
        /\ grace' = (inBossEncounter /\ ~seen /\ ~lost)
        /\ enemies' = IF calls > 0 THEN ResetEnemies(enemies) ELSE enemies
        /\ users' = IF calls > 0 THEN ResetUsers(users) ELSE users
        /\ pending' = [pending EXCEPT !["boss"] = @ + calls]
        /\ out' = [kind |-> "tick",
                   from |-> EncounterState,
                   resetCalls |-> calls,
                   emits |-> Broadcast(isPaused,
                                DataPayload(users', enemies', activeBossId', activeBossName'))]
        /\ UNCHANGED <<now, startTime, pauseVars, pauseBase>>

\* Reset pause accounting for the new session; the settings file write that
\* follows is wrapped in try/catch and changes no state.
\* Mutant of ZeroPauseAccounting: only the accumulated total is zeroed.
ZeroPauseTotalOnly ==
    /\ totalPausedMs' = 0
    /\ UNCHANGED <<lastPausedAt, lastResumedAt, isPaused>>

ZeroPauseAccounting ==
    /\ totalPausedMs' = 0
    /\ lastPausedAt' = None
    /\ lastResumedAt' = None
    /\ UNCHANGED isPaused

\* The async function of the boss entry resumes after resetStatistics().
BossResetContinuation ==
    /\ pending["boss"] > 0
    /\ pending' = [pending EXCEPT !["boss"] = @ - 1]
    /\ ZeroPauseAccounting
    /\ out' = NoOut
    /\ pauseBase' = IF pauseBase = None THEN None
                    ELSE Some([Val(pauseBase) EXCEPT !.autoReset = TRUE])
    /\ UNCHANGED <<now, storeVars, bossVars>>

(***************************************************************************)
(* HTTP routes                                                             *)
(***************************************************************************)
Response(route, request, status, body) ==
    [kind |-> "response", route |-> route, request |-> request,
     status |-> status, body |-> body]

NoBody == [none |-> TRUE]

\* The answer of a handler whose settings write sits in try { } catch {}:
\* written tells whether writeFile resolved or threw; the catch swallows the
\* failure and res.json follows either way.
SettledResponse(route, written, body) ==
    [kind |-> "response", route |-> route, request |-> NoBody,
     status |-> 200, body |-> body, settingsWritten |-> written]

\* The pause fields of the POST and GET /api/pause answers.
PauseBody ==
    [code |-> 0, paused |-> isPaused', lastPausedAt |-> OrNull(lastPausedAt'),
     lastResumedAt |-> OrNull(lastResumedAt'), totalPausedMs |-> totalPausedMs']

\* Mutant of PausedSpan: the span measured from the last resume, not the pause.
PausedSpanSinceResume(t, pausedAt) ==
    IF Truthy(pausedAt) /\ Val(pausedAt) > 0
    THEN Max(0, t - (IF lastResumedAt = None THEN 0 ELSE Val(lastResumedAt)))
    ELSE 0

\* if (lastPausedAt && lastPausedAt > 0) totalPausedMs += Math.max(0, now - lastPausedAt)
PausedSpan(t, pausedAt) ==
    IF Truthy(pausedAt) /\ Val(pausedAt) > 0 THEN Max(0, t - Val(pausedAt)) ELSE 0

\* Mutant of EnterPause: the `if (!globalSettings.isPaused)` test dropped.
EnterPauseUnguarded ==
    /\ isPaused' = TRUE
    /\ lastPausedAt' = Some(now)
    /\ UNCHANGED <<lastResumedAt, totalPausedMs>>

\* Entering the paused state: only when not already paused.
EnterPause ==
    IF ~isPaused
    THEN /\ isPaused' = TRUE
         /\ lastPausedAt' = Some(now)
         /\ UNCHANGED <<lastResumedAt, totalPausedMs>>
    ELSE UNCHANGED pauseVars

\* Leaving the paused state: only when paused.
LeavePause ==
    IF isPaused
    THEN /\ isPaused' = FALSE
         /\ totalPausedMs' = totalPausedMs + PausedSpan(now, OrNull(lastPausedAt))
         /\ lastResumedAt' = Some(now)
         /\ lastPausedAt' = None
    ELSE UNCHANGED pauseVars

\* POST /api/pause with body {paused}.
PostPause(paused) ==
    /\ IF paused THEN EnterPause ELSE LeavePause
    /\ out' = Response("POST /api/pause", [paused |-> paused], 200, PauseBody)
    /\ pauseBase' = IF paused /\ ~isPaused
                    THEN Some([t0 |-> now, total |-> totalPausedMs, autoReset |-> FALSE])
                    ELSE None
    /\ UNCHANGED <<now, storeVars, bossVars, pending>>

\* GET /api/pause.
GetPause ==
    /\ UNCHANGED <<now, storeVars, bossVars, pauseVars, pending, pauseBase>>
    /\ out' = Response("GET /api/pause", NoBody, 200, PauseBody)

\* Mutant of ResetRouteUsers: clearAll() called in place of resetStatistics().
ResetRouteClears(tbl) == EmptyTable

\* The player table after the call GET /api/reset makes: resetStatistics().
ResetRouteUsers(tbl) == ResetUsers(tbl)

\* GET /api/reset up to its first await: userDataManager.resetStatistics().
GetReset ==
    /\ pending["reset"] < MaxPending
    /\ enemies' = ResetEnemies(enemies)
    /\ users' = ResetRouteUsers(users)
    /\ pending' = [pending EXCEPT !["reset"] = @ + 1]
    /\ out' = NoOut
    /\ pauseBase' = None
    /\ UNCHANGED <<now, startTime, bossVars, pauseVars>>

\* GET /api/reset after the await: pause accounting, settings write, answer.
GetResetContinuation(written) ==
    /\ pending["reset"] > 0
    /\ pending' = [pending EXCEPT !["reset"] = @ - 1]
    /\ ZeroPauseAccounting
    /\ out' = SettledResponse("GET /api/reset", written, [code |-> 0, msg |-> "Statistics reset!"])
    /\ pauseBase' = None
    /\ UNCHANGED <<now, storeVars, bossVars>>

\* GET /api/clear up to its first await: userDataManager.clearAll().
GetClear ==
    /\ pending["clear"] < MaxPending
    /\ enemies' = EmptyTable
    /\ users' = EmptyTable
    /\ pending' = [pending EXCEPT !["clear"] = @ + 1]
    /\ out' = NoOut
    /\ pauseBase' = None
    /\ UNCHANGED <<now, startTime, bossVars, pauseVars>>

\* GET /api/clear after the await.
GetClearContinuation(written) ==
    /\ pending["clear"] > 0
    /\ pending' = [pending EXCEPT !["clear"] = @ - 1]
    /\ ZeroPauseAccounting
    /\ out' = SettledResponse("GET /api/clear", written, [code |-> 0, msg |-> "Statistics cleared!"])
    /\ pauseBase' = None
    /\ UNCHANGED <<now, storeVars, bossVars>>

\* GET /api/data.
GetData ==
    /\ out' = Response("GET /api/data", NoBody, 200,
                [data |-> DataPayload(getAllUsersData, getAllEnemiesData,
                                      activeBossId, activeBossName),
                 timestamp |-> now, startTime |-> startTime])
    /\ UNCHANGED <<now, storeVars, bossVars, pauseVars, pending, pauseBase>>

\* getSoloUserData(): the local player's record alone.
localPlayerUid == MinOf(Uids)
getSoloUserData == [i \in DOMAIN users \cap {localPlayerUid} |-> users[i]]

\* GET /api/solo-user.
GetSoloUser ==
    /\ out' = Response("GET /api/solo-user", NoBody, 200,
                [data |-> DataPayload(getSoloUserData, getAllEnemiesData,
                                      activeBossId, activeBossName),
                 timestamp |-> now, startTime |-> startTime])
    /\ UNCHANGED <<now, storeVars, bossVars, pauseVars, pending, pauseBase>>

(***************************************************************************)
(* Request values: route parameters and JSON body fields                   *)
(***************************************************************************)
\* A string is the sequence of its characters.
DigitValue(c) ==
    CASE c = "0" -> 0 [] c = "1" -> 1 [] c = "2" -> 2 [] c = "3" -> 3 [] c = "4" -> 4
      [] c = "5" -> 5 [] c = "6" -> 6 [] c = "7" -> 7 [] c = "8" -> 8 [] c = "9" -> 9
      [] OTHER -> -1

RECURSIVE LeadingDigits(_)
LeadingDigits(chars) ==
    IF chars = <<>> \/ DigitValue(Head(chars)) < 0 THEN <<>>
    ELSE <<Head(chars)>> \o LeadingDigits(Tail(chars))

RECURSIVE DecimalValue(_)
DecimalValue(digits) ==
    IF digits = <<>> THEN 0
    ELSE DecimalValue(SubSeq(digits, 1, Len(digits) - 1)) * 10
            + DigitValue(digits[Len(digits)])

\* parseInt(string, 10) on unsigned input: the value of the leading run of
\* digits, whatever follows it; NaN (None) when the string starts with none.
parseInt(chars) ==
    IF LeadingDigits(chars) = <<>> THEN None
    ELSE Some(DecimalValue(LeadingDigits(chars)))

\* A JSON body field that may be absent, a number or a string.
Absent == [t |-> "absent", n |-> 0, s |-> <<>>]
Num(n) == [t |-> "number", n |-> n, s |-> <<>>]
Str(chars) == [t |-> "string", n |-> 0, s |-> chars]

\* JavaScript truthiness: undefined, 0 and "" are falsy.
JsTruthy(v) ==
    CASE v.t = "absent" -> FALSE
      [] v.t = "number" -> v.n # 0
      [] OTHER -> v.s # <<>>

\* parseInt(uid, 10) of a body field: a number is converted to its decimal
\* string first, so a non-negative integer parses to itself.
parseIntField(v) ==
    CASE v.t = "number" -> Some(v.n)
      [] v.t = "string" -> parseInt(v.s)
      [] OTHER -> None

\* The :uid parameters GET /api/skill/:uid is asked with.
UidParams == {<<"1", "0", "0">>, <<"2", "0", "0">>, <<"1", "0", "0", "x">>, <<"x">>}
\* The uid fields POST /api/set-username is sent.
UidFields == {Absent, Num(0), Num(100), Str(<<"2", "0", "0">>), Str(<<"x">>)}
\* The name fields POST /api/set-username is sent (None: absent).
NameFields == {None, Some(""), Some("Ann")}
\* Professions an EntityInfo event carries.
Professions == {"Mage"}
\* Skill ids a DamageDealt event carries.
SkillIds == {7}

(***************************************************************************)
(* GET /api/skill/:uid and POST /api/set-username                          *)
(***************************************************************************)
\* getUserSkillData(uid): null when the uid is unknown (NaN is no uid), else
\* the player's per-skill totals.
getUserSkillData(uid) ==
    IF uid = None THEN None
    ELSE IF Val(uid) \notin DOMAIN users THEN None
    ELSE Some([k \in (IF users[Val(uid)].total_damage > 0 THEN SkillIds ELSE {}) |->
                  [totalDamage |-> users[Val(uid)].total_damage]])

\* Mutant of SkillNotFound: an empty skill table taken for a missing one.
SkillNotFoundOrEmpty(skillData) == skillData = None \/ DOMAIN Val(skillData) = {}

\* if (!skillData)
SkillNotFound(skillData) == skillData = None

\* GET /api/skill/:uid.
GetSkill(param) ==
    /\ LET uid == parseInt(param)
           skillData == getUserSkillData(uid)
       IN  out' = IF SkillNotFound(skillData)
                  THEN Response("GET /api/skill/:uid", [uid |-> param], 404,
                                [code |-> 1, msg |-> "User not found"])
                  ELSE Response("GET /api/skill/:uid", [uid |-> param], 200,
                                [code |-> 0, data |-> Val(skillData)])
    /\ UNCHANGED <<now, storeVars, bossVars, pauseVars, pending, pauseBase>>

\* setName(uid, name): identity-only mutation of the player's record.
setName(tbl, uid, name) == Put(tbl, uid, [UserOf(tbl, uid) EXCEPT !.name = name])

\* Mutant of SetUsernameAccepted: a presence test in place of `uid &&`.
SetUsernameAcceptsPresent(uid, name) ==
    uid.t # "absent" /\ name # None /\ Val(name) # "" /\ parseIntField(uid) # None

\* if (uid && name) { ... if (!isNaN(userId)) ... }: the branch calling setName.
SetUsernameAccepted(uid, name) ==
    JsTruthy(uid) /\ name # None /\ Val(name) # "" /\ parseIntField(uid) # None

\* POST /api/set-username.
PostSetUsername(uid, name) ==
    /\ IF SetUsernameAccepted(uid, name)
       THEN /\ users' = setName(users, Val(parseIntField(uid)), Val(name))
            /\ out' = Response("POST /api/set-username", [uid |-> uid, name |-> name],
                               200, [code |-> 0, msg |-> "Username updated successfully."])
       ELSE /\ UNCHANGED users
            /\ out' = Response("POST /api/set-username", [uid |-> uid, name |-> name],
                               400, [code |-> 1,
                                     msg |-> IF JsTruthy(uid) /\ name # None /\ Val(name) # ""
                                             THEN "Invalid UID."
                                             ELSE "Missing UID or name."])
    /\ UNCHANGED <<now, enemies, startTime, bossVars, pauseVars, pending, pauseBase>>

\* A SessionBoundary event: the server or zone changed, startTime restarts.
SessionBoundary ==
    /\ startTime # now
    /\ startTime' = now
    /\ out' = NoOut
    /\ UNCHANGED <<now, enemies, users, bossVars, pauseVars, pending, pauseBase>>

(***************************************************************************)
(* Renderer: the useDataFetching hook                                      *)
(***************************************************************************)
Take(s, n) == SubSeq(s, 1, IF Len(s) < n THEN Len(s) ELSE n)

RECURSIVE SumOver(_, _, _)
SumOver(tbl, S, field) ==
    IF S = {} THEN 0
    ELSE LET i == CHOOSE x \in S : TRUE
         IN  tbl[i][field] + SumOver(tbl, S \ {i}, field)

\* Mutant of PollDelay: the two branches swapped.
PollDelaySwapped(paused) == IF paused THEN Some(50) ELSE None

\* useInterval(fetchData, isPaused ? null : 50): the delay handed to the timer.
PollDelay(paused) == IF paused THEN None ELSE Some(50)

\* useInterval: a null delay leaves no interval running.
useIntervalArmed(delay) == delay # None

\* A render commits the state and re-runs the interval effect.
Render(h) == [h EXCEPT !.timerArmed = useIntervalArmed(PollDelay(h.isPaused))]

\* The pause fields a /api/pause answer sets in the hook
\* (`typeof json.paused === "boolean"` holds of every answer of the server).
ApplyPauseJson(h, json) ==
    Render([h EXCEPT !.isPaused = json.paused,
                     !.lastPausedAt = json.lastPausedAt,
                     !.totalPausedMs = json.totalPausedMs])

\* The mount effect's GET /api/pause reaches the server.
ServeSync ==
    /\ sync.stage = "sent"
    /\ GetPause
    /\ sync' = [stage |-> "served", resp |-> Some(out'.body)]
    /\ UNCHANGED <<options, hook, polls, toggles>>

\* syncPauseState after its awaits.
SyncDone ==
    /\ sync.stage = "served"
    /\ hook' = ApplyPauseJson(hook, Val(sync.resp))
    /\ sync' = [stage |-> "done", resp |-> None]
    /\ out' = NoOut
    /\ UNCHANGED <<now, storeVars, bossVars, pauseVars, pending, pauseBase,
                   options, polls, toggles>>

\* togglePause up to its fetch: the optimistic setIsPaused and the POST.
TogglePause ==
    /\ BagCardinality(toggles) < MaxToggles
    /\ LET newPausedState == ~hook.isPaused
       IN  /\ hook' = Render([hook EXCEPT !.isPaused = newPausedState])
           /\ toggles' = BagAdd(toggles, [paused |-> newPausedState, resp |-> None])
    /\ out' = NoOut
    /\ UNCHANGED <<now, storeVars, bossVars, pauseVars, pending, pauseBase,
                   options, polls, sync>>

\* The POST /api/pause of a togglePause call reaches the server.
ServeToggle(c) ==
    /\ c.resp = None
    /\ PostPause(c.paused)
    /\ toggles' = BagAdd(BagRemove(toggles, c), [c EXCEPT !.resp = Some(out'.body)])
    /\ UNCHANGED <<options, hook, polls, sync>>

\* togglePause after its awaits: the server's answer replaces the guess.
ToggleDone(c) ==
    /\ c.resp # None
    /\ hook' = ApplyPauseJson(hook, Val(c.resp))
    /\ toggles' = BagRemove(toggles, c)
    /\ out' = NoOut
    /\ UNCHANGED <<now, storeVars, bossVars, pauseVars, pending, pauseBase,
                   options, polls, sync>>

\* togglePause's fetch rejects: the catch logs, the guess stays.
ToggleFail(c) ==
    /\ toggles' = BagRemove(toggles, c)
    /\ out' = NoOut
    /\ UNCHANGED <<now, storeVars, bossVars, pauseVars, pending, pauseBase,
                   options, hook, polls, sync>>

\* The interval fires: fetchData starts with the closure of the last render
\* and sends its request.
PollStart ==
    /\ hook.timerArmed
    /\ BagCardinality(polls) < MaxPolls
    /\ polls' = BagAdd(polls,
                  [viewMode |-> options.viewMode,
                   sortColumn |-> options.sortColumn,
                   sortDirection |-> options.sortDirection,
                   showAllPlayers |-> options.showAllPlayers,
                   encounterStartTime |-> hook.encounterStartTime,
                   totalPausedMs |-> hook.totalPausedMs,
                   resp |-> None])
    /\ out' = NoOut
    /\ UNCHANGED <<now, storeVars, bossVars, pauseVars, pending, pauseBase,
                   options, hook, toggles, sync>>

\* The fields of the answer fetchData reads.
PollJson(body) == [data |-> body.data, startTime |-> body.startTime]

\* viewMode === "solo" ? "/api/solo-user" : "/api/data"
ServePoll(c) ==
    /\ c.resp = None
    /\ IF c.viewMode = "solo" THEN GetSoloUser ELSE GetData
    /\ polls' = BagAdd(BagRemove(polls, c), [c EXCEPT !.resp = Some(PollJson(out'.body))])
    /\ UNCHANGED <<options, hook, toggles, sync>>

\* Mutant of ServerResetDetected: the comparison with the recorded time dropped.
ServerResetWheneverSet(respStart, last) == respStart # 0

\* userData.startTime && userData.startTime !== lastStartTimeRef.current
ServerResetDetected(respStart, last) == respStart # 0 /\ respStart # last

\* The column sortUserArray compares.
SortKey(u, sortColumn) ==
    CASE sortColumn = "totalDmg" -> u.total_damage
      [] sortColumn = "totalDmgTaken" -> u.taken_damage
      [] sortColumn = "totalHeal" -> u.total_healing
      [] OTHER -> u.total_damage

\* Mutant of sortUserArray: the direction ignored, always descending.
sortUserArrayDesc(usr, S, sortColumn, sortDirection) ==
    LET key(i) == SortKey(usr[i], sortColumn)
        before(i, j) == key(i) > key(j) \/ (key(i) = key(j) /\ i < j)
        rank(i) == Cardinality({j \in S : before(j, i)}) + 1
    IN  [k \in 1..Cardinality(S) |-> CHOOSE i \in S : rank(i) = k]

\* sortUserArray: Array.prototype.sort is stable and Object.entries lists
\* integer keys in ascending order, so equal keys stay in uid order.
sortUserArray(usr, S, sortColumn, sortDirection) ==
    LET key(i) == SortKey(usr[i], sortColumn)
        before(i, j) ==
            \/ IF sortDirection = "asc" THEN key(i) < key(j) ELSE key(i) > key(j)
            \/ key(i) = key(j) /\ i < j
        rank(i) == Cardinality({j \in S : before(j, i)}) + 1
    IN  [k \in 1..Cardinality(S) |-> CHOOSE i \in S : rank(i) = k]

\* The rows fetchData publishes: combatants only, with their share of the
\* damage (as the fraction num/den of 100), sorted, top 10 in nearby view.
PlayerRows(usr, poll) ==
    LET active == {i \in DOMAIN usr : usr[i].total_damage > 0}
        sumaTotalDamage == SumOver(usr, active, "total_damage")
        order == sortUserArray(usr, active, poll.sortColumn, poll.sortDirection)
        rows == [k \in 1..Len(order) |->
                    [uid |-> order[k], user |-> usr[order[k]],
                     damagePercent |-> [num |-> usr[order[k]].total_damage * 100,
                                        den |-> sumaTotalDamage]]]
    IN  IF poll.viewMode = "nearby" /\ ~poll.showAllPlayers THEN Take(rows, 10) ELSE rows

\* fetchData after its awaits, nearby and solo view: the hook after the
\* answer r of the call poll has been processed at time t.
FetchDataResult(h, poll, r, t) ==
    LET usr == r.data.user
        h1 == [h EXCEPT !.activeBossId = r.data.activeBossId,
                        !.activeBossName = r.data.activeBossName,
                        !.activeEnemyId = r.data.activeEnemy.activeEnemyId,
                        !.activeEnemyName = r.data.activeEnemy.activeEnemyName,
                        !.startTime = IF r.startTime # 0 THEN r.startTime ELSE @]
        reset == ServerResetDetected(r.startTime, h.lastStartTime)
        h2 == IF reset
              THEN [h1 EXCEPT !.lastStartTime = r.startTime,
                              !.lastTotalDamage = 0,
                              !.encounterStartTime = None,
                              !.pausedBaselineMs = 0]
              ELSE h1
        sumaTotalDamageAll == SumOver(usr, DOMAIN usr, "total_damage")
        sumTotalHealingAll == SumOver(usr, DOMAIN usr, "total_healing")
        sumTakenAll == SumOver(usr, DOMAIN usr, "taken_damage")
        hasCombat == sumaTotalDamageAll + sumTotalHealingAll + sumTakenAll > 0
        h3 == IF poll.encounterStartTime = None /\ hasCombat
              THEN [h2 EXCEPT !.encounterStartTime = Some(t),
                              !.pausedBaselineMs = poll.totalPausedMs]
              ELSE h2
        h4 == [h3 EXCEPT !.lastTotalDamage = sumaTotalDamageAll]
        rows == PlayerRows(usr, poll)
    IN  [serverResets |-> IF reset THEN 1 ELSE 0,
         hook |-> IF DOMAIN usr = {}
                  THEN [h2 EXCEPT !.players = <<>>, !.isLoading = TRUE]
                  ELSE IF rows = <<>>
                  THEN [h4 EXCEPT !.players = <<>>, !.isLoading = FALSE]
                  ELSE [h4 EXCEPT !.players = rows]]

\* A fetchData call processes its answer.
PollDone(c) ==
    /\ c.resp # None
    /\ LET res == FetchDataResult(hook, c, Val(c.resp), now)
       IN  /\ hook' = Render(res.hook)
           /\ out' = [kind |-> "poll", poll |-> c,
                      onServerReset |-> res.serverResets]
    /\ polls' = BagRemove(polls, c)
    /\ UNCHANGED <<now, storeVars, bossVars, pauseVars, pending, pauseBase,
                   options, toggles, sync>>

\* A fetchData call's fetch rejects: the catch empties the list.
PollFail(c) ==
    /\ hook' = Render([hook EXCEPT !.players = <<>>, !.isLoading = TRUE])
    /\ polls' = BagRemove(polls, c)
    /\ out' = NoOut
    /\ UNCHANGED <<now, storeVars, bossVars, pauseVars, pending, pauseBase,
                   options, toggles, sync>>

\* The hook's pause toggle and poll timer in front of the server.
NextToggle ==
    \/ \E d \in ClockSteps : Advance(d, MaxHookTime) /\ UNCHANGED clientVars
    \/ ServeSync /\ UNCHANGED <<deviceVars, pipelineVars, shellVars, groupVars>>
    \/ SyncDone /\ UNCHANGED <<deviceVars, pipelineVars, shellVars, groupVars>>
    \/ TogglePause /\ UNCHANGED <<deviceVars, pipelineVars, shellVars, groupVars>>
    \/ \E c \in BagToSet(toggles) : ServeToggle(c) /\ UNCHANGED <<deviceVars, pipelineVars, shellVars, groupVars>>
    \/ \E c \in BagToSet(toggles) : ToggleDone(c) /\ UNCHANGED <<deviceVars, pipelineVars, shellVars, groupVars>>
    \/ \E c \in BagToSet(toggles) : ToggleFail(c) /\ UNCHANGED <<deviceVars, pipelineVars, shellVars, groupVars>>
    \/ PollStart /\ UNCHANGED <<deviceVars, pipelineVars, shellVars, groupVars>>
    \/ \E c \in BagToSet(polls) : PollFail(c) /\ UNCHANGED <<deviceVars, pipelineVars, shellVars, groupVars>>

SpecToggle == Init /\ [][NextToggle]_vars

\* The hook's polls in front of the server: a fight, zone changes, and the
\* persisted pause accounting read by the mount-time sync.
NextPolling ==
    \/ \E d \in ClockSteps : Advance(d, MaxHookTime) /\ UNCHANGED clientVars
    \/ \E uid \in Uids, eid \in FightIds, amt \in Amounts :
          DamageDealt(uid, eid, amt, MaxHits) /\ UNCHANGED clientVars
    \/ SessionBoundary /\ UNCHANGED clientVars
    \/ ServeSync /\ UNCHANGED <<deviceVars, pipelineVars, shellVars, groupVars>>
    \/ SyncDone /\ UNCHANGED <<deviceVars, pipelineVars, shellVars, groupVars>>
    \/ PollStart /\ UNCHANGED <<deviceVars, pipelineVars, shellVars, groupVars>>
    \/ \E c \in BagToSet(polls) : ServePoll(c) /\ UNCHANGED <<deviceVars, pipelineVars, shellVars, groupVars>>
    \/ \E c \in BagToSet(polls) : PollDone(c) /\ UNCHANGED <<deviceVars, pipelineVars, shellVars, groupVars>>
    \/ \E c \in BagToSet(polls) : PollFail(c) /\ UNCHANGED <<deviceVars, pipelineVars, shellVars, groupVars>>

SpecPolling == Init /\ [][NextPolling]_vars

\* Player tables the store can hold when it is polled: n players, the local
\* player first, whose totals run through 0..MaxKey in the patterns a, b, c
\* (zeros, ties and several orders among them).
PlayerTable(n, a, b, c) ==
    [i \in localPlayerUid..(localPlayerUid + n - 1) |->
        [name |-> "", profession |-> "",
         total_damage |-> (a * i + b) % (MaxKey + 1),
         total_healing |-> (c * i + a) % (MaxKey + 1),
         taken_damage |-> (i + c) % (MaxKey + 1)]]

PlayerTables ==
    {PlayerTable(n, a, b, c) : n \in {0, 2, MaxPlayers}, a \in 0..1, b \in 0..1, c \in 0..1}

\* The options a component passes to the hook.
SortColumns == {"totalDmg", "totalDmgTaken", "totalHeal"}
SortDirections == {"asc", "desc"}

\* A hook freshly mounted, with any options, in front of a server whose
\* store holds one of the player tables.
InitRows ==
    /\ now = 1
    /\ enemies = EmptyTable
    /\ users \in PlayerTables
    /\ startTime = 1
    /\ inBossEncounter = FALSE
    /\ activeBossId = None
    /\ activeBossName = None
    /\ lastBossSeenAt = None
    /\ grace = FALSE
    /\ isPaused = FALSE
    /\ lastPausedAt = None
    /\ lastResumedAt = None
    /\ totalPausedMs = 0
    /\ pending = [k \in PendingKinds |-> 0]
    /\ out = NoOut
    /\ pauseBase = None
    /\ options \in [viewMode : ViewModes, sortColumn : SortColumns,
                    sortDirection : SortDirections, showAllPlayers : BOOLEAN]
    /\ hook = InitHook
    /\ polls = EmptyBag
    /\ toggles = EmptyBag
    /\ sync = [stage |-> "sent", resp |-> None]
    /\ stats = NewStats
    /\ sent = <<>>
    /\ wire = {}
    /\ arrivals = <<>>
    /\ flow = NewFlow
    /\ events = <<>>
    /\ selectedDevice = None
    /\ deviceReqs = EmptyBag
    /\ sniffer = [capturing |-> Some("auto"), stopping |-> 0, starting |-> 0,
                  stoppedSinceStart |-> FALSE]
    /\ childRef = [k \in WindowKinds |-> None]
    /\ liveWindows = {}
    /\ created = 0
    /\ opens = EmptyBag
    /\ launch = NewLaunch
    /\ search = [status |-> "idle", port |-> FIRST_PORT, probed |-> <<>>]
    /\ settingsFile = Some(SettingsAtStart)
    /\ saves = EmptyBag
    /\ manualGroup = None

\* The poll timer in front of a store that holds still.
NextRows ==
    \/ PollStart /\ UNCHANGED <<deviceVars, pipelineVars, shellVars, groupVars>>
    \/ \E c \in BagToSet(polls) : ServePoll(c) /\ UNCHANGED <<deviceVars, pipelineVars, shellVars, groupVars>>
    \/ \E c \in BagToSet(polls) : PollDone(c) /\ UNCHANGED <<deviceVars, pipelineVars, shellVars, groupVars>>

SpecRows == InitRows /\ [][NextRows]_vars

\* The boss detector with the store events that feed it and the clear
\* request that empties the enemy table.
NextBoss ==
    \/ \E d \in ClockSteps : Advance(d, MaxTime) /\ UNCHANGED clientVars
    \/ \E uid \in Uids, eid \in EnemyIds, amt \in Amounts : DamageDealt(uid, eid, amt, MaxTotal) /\ UNCHANGED clientVars
    \/ \E eid \in EnemyIds : EntityInfo(eid) /\ UNCHANGED clientVars
    \/ Tick /\ UNCHANGED clientVars
    \/ BossResetContinuation /\ UNCHANGED clientVars
    \/ GetClear /\ UNCHANGED clientVars
    \/ \E written \in BOOLEAN : GetClearContinuation(written) /\ UNCHANGED clientVars

SpecBoss == Init /\ [][NextBoss]_vars

\* The whole API server, fed with the events of one boss fight.
NextServer ==
    \/ \E d \in ClockSteps : Advance(d, MaxTime) /\ UNCHANGED clientVars
    \/ \E uid \in Uids, eid \in FightIds, amt \in Amounts : DamageDealt(uid, eid, amt, MaxTotal) /\ UNCHANGED clientVars
    \/ Tick /\ UNCHANGED clientVars
    \/ BossResetContinuation /\ UNCHANGED clientVars
    \/ \E paused \in BOOLEAN : PostPause(paused) /\ UNCHANGED clientVars
    \/ GetPause /\ UNCHANGED clientVars
    \/ GetReset /\ UNCHANGED clientVars
    \/ \E written \in BOOLEAN : GetResetContinuation(written) /\ UNCHANGED clientVars
    \/ GetClear /\ UNCHANGED clientVars
    \/ \E written \in BOOLEAN : GetClearContinuation(written) /\ UNCHANGED clientVars
    \/ GetData /\ UNCHANGED clientVars

SpecServer == Init /\ [][NextServer]_vars

\* Enemy tables of every shape, each read by GET /api/data.
NextEnemies ==
    \/ \E uid \in Uids, eid \in EnemyIds, amt \in Amounts :
          DamageDealt(uid, eid, amt, MaxEnemyTotal) /\ UNCHANGED clientVars
    \/ \E eid \in EnemyIds : EntityInfo(eid) /\ UNCHANGED clientVars
    \/ GetData /\ UNCHANGED clientVars

SpecEnemies == Init /\ [][NextEnemies]_vars
(***************************************************************************)
(* POST /api/device: switching the capture device                          *)
(***************************************************************************)
\* What a body's selectedDevice can be: absent, or a device id.
DeviceSelectors == {None} \cup {Some(d) : d \in DeviceIds}

\* selectedDevice !== undefined ? selectedDevice : "auto"
StartSelector(d) == IF d # None THEN Val(d) ELSE "auto"

\* What the device handler leaves alone.
DeviceFrame ==
    UNCHANGED <<now, storeVars, bossVars, pauseVars, pending, pauseBase, rendererVars,
                pipelineVars, shellVars, groupVars>>

\* The handler up to its first await: the setting is assigned and the
\* settings file write is issued. The request remembers, as history, the
\* setting and the capture it found.
PostDevice(d) ==
    /\ BagCardinality(deviceReqs) < MaxRequests
    /\ selectedDevice' = d
    /\ deviceReqs' = BagAdd(deviceReqs, [selectedDevice |-> d, at |-> "writeFile",
                                         before |-> [selectedDevice |-> selectedDevice,
                                                     capturing |-> sniffer.capturing]])
    /\ out' = NoOut
    /\ UNCHANGED sniffer
    /\ DeviceFrame

\* The catch branch: 500 with the failure message.
DeviceFailure(r) ==
    Response("POST /api/device", [selectedDevice |-> r.selectedDevice], 500,
             [code |-> 1, msg |-> "Failed to persist selected device"])

\* writeFile resolved: the handler calls sniffer.stop(), which begins.
DeviceStop(r) ==
    /\ r.at = "writeFile"
    /\ sniffer' = [sniffer EXCEPT !.stopping = @ + 1]
    /\ deviceReqs' = BagAdd(BagRemove(deviceReqs, r), [r EXCEPT !.at = "stop"])
    /\ out' = [kind |-> "sniffer", call |-> "stop", request |-> r,
               startsInProgress |-> sniffer.starting]
    /\ UNCHANGED selectedDevice
    /\ DeviceFrame

\* writeFile rejected: neither stop() nor start() is called.
DeviceWriteFailed(r) ==
    /\ r.at = "writeFile"
    /\ deviceReqs' = BagRemove(deviceReqs, r)
    /\ out' = DeviceFailure(r)
    /\ UNCHANGED <<selectedDevice, sniffer>>
    /\ DeviceFrame

\* stop() completes: delivery is quiesced and the handler's await resolves.
SnifferStopped(r) ==
    /\ r.at = "stop"
    /\ sniffer' = [sniffer EXCEPT !.stopping = @ - 1, !.capturing = None,
                                  !.stoppedSinceStart = TRUE]
    /\ deviceReqs' = BagAdd(BagRemove(deviceReqs, r), [r EXCEPT !.at = "stopped"])
    /\ out' = NoOut
    /\ UNCHANGED selectedDevice
    /\ DeviceFrame

\* The handler resumes after `await sniffer.stop()` and calls sniffer.start().
DeviceStart(r) ==
    /\ r.at = "stopped"
    /\ sniffer' = [sniffer EXCEPT !.starting = @ + 1, !.stoppedSinceStart = FALSE]
    /\ deviceReqs' = BagAdd(BagRemove(deviceReqs, r), [r EXCEPT !.at = "start"])
    /\ out' = [kind |-> "sniffer", call |-> "start", request |-> r,
               selector |-> StartSelector(r.selectedDevice),
               stopsInProgress |-> sniffer.stopping,
               stoppedSinceStart |-> sniffer.stoppedSinceStart]
    /\ UNCHANGED selectedDevice
    /\ DeviceFrame

\* start() completes: the device is captured and the handler answers.
SnifferStarted(r) ==
    /\ r.at = "start"
    /\ sniffer' = [sniffer EXCEPT !.starting = @ - 1,
                                  !.capturing = Some(StartSelector(r.selectedDevice))]
    /\ deviceReqs' = BagRemove(deviceReqs, r)
    /\ out' = Response("POST /api/device", [selectedDevice |-> r.selectedDevice], 200,
                       [code |-> 0, data |-> [selectedDevice |-> r.selectedDevice]])
    /\ UNCHANGED selectedDevice
    /\ DeviceFrame

\* start() fails with a CaptureError: the catch branch answers.
SnifferStartFailed(r) ==
    /\ r.at = "start"
    /\ sniffer' = [sniffer EXCEPT !.starting = @ - 1]
    /\ deviceReqs' = BagRemove(deviceReqs, r)
    /\ out' = DeviceFailure(r)
    /\ UNCHANGED selectedDevice
    /\ DeviceFrame

\* GET /api/device: globalSettings.selectedDevice || null.
GetDevice ==
    /\ out' = Response("GET /api/device", NoBody, 200,
                       [code |-> 0, data |-> [selectedDevice |-> selectedDevice]])
    /\ UNCHANGED <<selectedDevice, deviceReqs, sniffer>>
    /\ DeviceFrame

\* Device switch requests, arriving while earlier ones are still being handled.
NextDevice ==
    \/ \E d \in DeviceSelectors : PostDevice(d)
    \/ \E r \in BagToSet(deviceReqs) : DeviceStop(r)
    \/ \E r \in BagToSet(deviceReqs) : DeviceWriteFailed(r)
    \/ \E r \in BagToSet(deviceReqs) : SnifferStopped(r)
    \/ \E r \in BagToSet(deviceReqs) : DeviceStart(r)
    \/ \E r \in BagToSet(deviceReqs) : SnifferStarted(r)
    \/ \E r \in BagToSet(deviceReqs) : SnifferStartFailed(r)
    \/ GetDevice

SpecDevice == Init /\ [][NextDevice]_vars

\* The store's request surface: events, the skill and name routes, the reset
\* and clear routes, and the boss detector's reset.
NextStore ==
    \/ \E uid \in Uids, eid \in FightIds, amt \in Amounts :
          DamageDealt(uid, eid, amt, MaxHits) /\ UNCHANGED clientVars
    \/ \E uid \in Uids, profession \in Professions :
          PlayerInfo(uid, profession) /\ UNCHANGED clientVars
    \/ \E param \in UidParams : GetSkill(param) /\ UNCHANGED clientVars
    \/ \E uid \in UidFields, name \in NameFields :
          PostSetUsername(uid, name) /\ UNCHANGED clientVars
    \/ Tick /\ UNCHANGED clientVars
    \/ BossResetContinuation /\ UNCHANGED clientVars
    \/ GetReset /\ UNCHANGED clientVars
    \/ \E written \in BOOLEAN : GetResetContinuation(written) /\ UNCHANGED clientVars
    \/ GetClear /\ UNCHANGED clientVars
    \/ \E written \in BOOLEAN : GetClearContinuation(written) /\ UNCHANGED clientVars

SpecStore == Init /\ [][NextStore]_vars

(***************************************************************************)
(* Damage statistics of a player (Aggregation Store)                       *)
(***************************************************************************)
\* The flags, amounts and mitigated amounts a DamageDealt event carries.
DamageEvents ==
    [amount : 1..2, critical : BOOLEAN, lucky : BOOLEAN, hpLessen : 0..1]

\* The category a hit is counted under.
DamageCategory(critical, lucky) ==
    IF critical /\ lucky THEN "crit_lucky"
    ELSE IF critical THEN "critical"
    ELSE IF lucky THEN "lucky"
    ELSE "normal"

\* Mutant of RaisedTotal: the mitigated amount summed into the total.
RaisedTotalWithLessen(total, e) == total + e.amount + e.hpLessen

\* The total after a hit: hpLessen is kept apart from it.
RaisedTotal(total, e) == total + e.amount

\* A DamageDealt event is applied to the player's statistics, atomically.
AddDamage(e) ==
    /\ stats.total + e.amount <= MaxStatTotal
    /\ stats' = [stats EXCEPT ![DamageCategory(e.critical, e.lucky)] = @ + e.amount,
                              !.hpLessen = @ + e.hpLessen,
                              !.total = RaisedTotal(@, e)]
    /\ out' = [kind |-> "event", event |-> e]
    /\ UNCHANGED <<now, storeVars, bossVars, pauseVars, pending, pauseBase,
                   rendererVars, deviceVars, sent, wire, arrivals, flow, events,
                   shellVars, groupVars>>

NextStats == \E e \in DamageEvents : AddDamage(e)

SpecStats == Init /\ [][NextStats]_vars

(***************************************************************************)
(* Stream Reassembler and Protocol Decoder                                 *)
(***************************************************************************)
\* A message on the wire: a one-byte length field (the payload length), then
\* the payload: an opcode and the record of that opcode.
OpDamageDealt == 1
OpEntityInfo == 2
\* DamageDealt: a fixed-width record, one byte of amount.
\* EntityInfo: a length-prefixed string.
DamageMessage == <<2, OpDamageDealt, 5>>
InfoMessage == <<3, OpEntityInfo, 1, 65>>
\* An opcode no record shape is known for.
UnknownMessage == <<2, 9, 7>>
\* Records that fail their consistency check: a string length overrunning
\* the frame, a fixed-width record of the wrong width.
OverrunMessage == <<3, OpEntityInfo, 4, 65>>
WidthMessage == <<3, OpDamageDealt, 5, 5>>

ValidMessages == {DamageMessage, InfoMessage}
CorruptMessages == {OverrunMessage, WidthMessage}
WireMessages == ValidMessages \cup CorruptMessages \cup {UnknownMessage}

\* The decoder on one framed payload: the event, or none for an unknown
\* opcode and for a record failing its consistency check.
DecodePayload(payload) ==
    LET opcode == payload[1]
        record == Tail(payload)
    IN  IF opcode = OpDamageDealt
        THEN IF Len(record) = 1
             THEN Some([type |-> "DamageDealt", value |-> <<record[1]>>])
             ELSE None
        ELSE IF opcode = OpEntityInfo
        THEN IF Len(record) >= 1 /\ record[1] = Len(record) - 1
             THEN Some([type |-> "EntityInfo", value |-> Tail(record)])
             ELSE None
        ELSE None

\* Mutant of ConsumedLength: a payload that yields no event is not skipped
\* whole, its last byte is left in the stream.
ConsumedLengthShort(bytes) ==
    IF DecodePayload(SubSeq(bytes, 2, 1 + bytes[1])) = None THEN bytes[1] ELSE 1 + bytes[1]

\* The bytes one message takes from the stream: the length field and exactly
\* the declared payload length, whatever the payload decodes to.
ConsumedLength(bytes) == 1 + bytes[1]

\* Framing and decoding of a contiguous byte stream: the events of the
\* complete messages at its front and the bytes of the incomplete message
\* left over.
RECURSIVE Parse(_)
Parse(bytes) ==
    IF bytes = <<>> \/ Len(bytes) < 1 + bytes[1] \/ bytes[1] < 1
    THEN [events |-> <<>>, carry |-> bytes]
    ELSE LET event == DecodePayload(SubSeq(bytes, 2, 1 + bytes[1]))
             rest == Parse(SubSeq(bytes, ConsumedLength(bytes) + 1, Len(bytes)))
         IN  [events |-> (IF event = None THEN <<>> ELSE <<Val(event)>>) \o rest.events,
              carry |-> rest.carry]

\* Mutant of FreshBytes: bytes already delivered are not discarded.
AllBytes(expected, seg) == seg.bytes

\* The bytes of a segment that have not been delivered yet.
FreshBytes(expected, seg) ==
    IF seg.seq >= expected THEN seg.bytes
    ELSE SubSeq(seg.bytes, expected - seg.seq + 1, Len(seg.bytes))

\* Append what has become contiguous: the buffered segments that start at or
\* before the expected sequence number, one after the other.
RECURSIVE Drain(_, _, _)
Drain(expected, buffer, bytes) ==
    LET ready == {q \in DOMAIN buffer : q <= expected}
    IN  IF ready = {} THEN [expected |-> expected, buffer |-> buffer, bytes |-> bytes]
        ELSE LET q == MinOf(ready)
                 fresh == FreshBytes(expected, [seq |-> q, bytes |-> buffer[q]])
             IN  Drain(expected + Len(fresh),
                       [r \in DOMAIN buffer \ {q} |-> buffer[r]],
                       bytes \o fresh)

\* The reassembler on an arriving segment: a segment ahead of the expected
\* sequence number is buffered, anything else gives its fresh bytes; the
\* newly contiguous bytes go after the carry-over and the complete messages
\* are decoded.
OnSegment(seg) ==
    LET buffered == [q \in DOMAIN flow.buffer \cup {seg.seq} |->
                        IF q = seg.seq THEN seg.bytes ELSE flow.buffer[q]]
        drained == Drain(flow.expected, buffered, <<>>)
        parsed == Parse(flow.carry \o drained.bytes)
    IN  /\ flow' = [expected |-> drained.expected, buffer |-> drained.buffer,
                    carry |-> parsed.carry]
        /\ events' = events \o parsed.events

PipelineFrame ==
    UNCHANGED <<now, storeVars, bossVars, pauseVars, pending, pauseBase,
                rendererVars, deviceVars, stats, shellVars, groupVars>>

\* The server sends a message that TCP carries in two segments.
SendSplit(m, k) ==
    /\ Cardinality(wire) < 2 * MaxSplit
    /\ sent' = sent \o m
    /\ wire' = wire \cup {[seq |-> Len(sent), bytes |-> SubSeq(m, 1, k)],
                          [seq |-> Len(sent) + k, bytes |-> SubSeq(m, k + 1, Len(m))]}
    /\ out' = NoOut
    /\ UNCHANGED <<arrivals, flow, events>>
    /\ PipelineFrame

\* A segment arrives, in any order and any number of times.
Deliver(seg) ==
    /\ Len(arrivals) < MaxSegments
    /\ arrivals' = Append(arrivals, seg.seq)
    /\ OnSegment(seg)
    /\ out' = [kind |-> "segment", segment |-> seg]
    /\ UNCHANGED <<sent, wire>>
    /\ PipelineFrame

\* A whole message arrives in one segment, in order.
Receive(m) ==
    /\ Len(arrivals) < MaxMessages
    /\ sent' = sent \o m
    /\ wire' = wire \cup {[seq |-> Len(sent), bytes |-> m]}
    /\ arrivals' = Append(arrivals, Len(sent))
    /\ OnSegment([seq |-> Len(sent), bytes |-> m])
    /\ out' = [kind |-> "segment", segment |-> [seq |-> Len(sent), bytes |-> m]]
    /\ PipelineFrame

\* Messages split in two, their halves arriving in any order, repeatedly.
NextReassembly ==
    \/ \E m \in WireMessages, k \in 1..2 : SendSplit(m, k)
    \/ \E seg \in wire : Deliver(seg)

SpecReassembly == Init /\ [][NextReassembly]_vars

\* Whole messages, valid and not, arriving in order.
NextDecoder == \E m \in WireMessages : Receive(m)

SpecDecoder == Init /\ [][NextDecoder]_vars

(***************************************************************************)
(* Electron main process: child windows                                    *)
(***************************************************************************)
\* What a main-process step leaves alone: the server, renderer and pipeline.
ShellFrame ==
    UNCHANGED <<now, storeVars, bossVars, pauseVars, pending, pauseBase,
                rendererVars, deviceVars, pipelineVars, groupVars>>

\* What the child-window code leaves alone.
WindowFrame == ShellFrame /\ UNCHANGED <<launchVars, portVars, fileVars>>

\* ref && !ref.isDestroyed(): the reference of the kind names a window that
\* still exists.
RefLive(key) ==
    childRef[key] # None /\ \E w \in liveWindows : w.id = Val(childRef[key])

\* openChildWindow up to its await: a live reference is focused and the call
\* returns; otherwise the call suspends at `await loadWindowSizes()`.
OpenChildWindow(key) ==
    /\ IF RefLive(key)
       THEN /\ out' = [kind |-> "window", call |-> "focus", key |-> key,
                       id |-> Val(childRef[key])]
            /\ UNCHANGED opens
       ELSE /\ BagCardinality(opens) < MaxOpens
            /\ created + BagCardinality(opens) < MaxWindows
            /\ opens' = BagAdd(opens, key)
            /\ out' = NoOut
    /\ UNCHANGED <<childRef, liveWindows, created>>
    /\ WindowFrame

\* openChildWindow after the await: new BrowserWindow, its "closed" handler
\* registered, and the module-level reference assigned.
CreateChildWindow(key) ==
    /\ BagIn(key, opens)
    /\ opens' = BagRemove(opens, key)
    /\ created' = created + 1
    /\ liveWindows' = liveWindows \cup {[id |-> created + 1, key |-> key]}
    /\ childRef' = [childRef EXCEPT ![key] = Some(created + 1)]
    /\ out' = [kind |-> "window", call |-> "create", key |-> key, id |-> created + 1]
    /\ WindowFrame

\* The user closes a child window: its "closed" handler nulls the reference
\* of its kind.
CloseChildWindow(w) ==
    /\ liveWindows' = liveWindows \ {w}
    /\ childRef' = [childRef EXCEPT ![w.key] = None]
    /\ out' = [kind |-> "window", call |-> "closed", key |-> w.key, id |-> w.id]
    /\ UNCHANGED <<created, opens>>
    /\ WindowFrame

\* Open-window IPC messages and window closes, in any order.
NextWindows ==
    \/ \E key \in WindowKinds : OpenChildWindow(key)
    \/ \E key \in WindowKinds : CreateChildWindow(key)
    \/ \E w \in liveWindows : CloseChildWindow(w)

SpecWindows == Init /\ [][NextWindows]_vars

(***************************************************************************)
(* Electron main process: waiting for the forked server                    *)
(***************************************************************************)
\* What the launch code leaves alone.
LaunchFrame ==
    UNCHANGED <<storeVars, bossVars, pauseVars, pending, pauseBase,
                rendererVars, deviceVars, pipelineVars, opens, created, portVars,
                fileVars, groupVars>>

\* Mutant of TimerAfterLoad: clearTimeout(serverTimeout) left out.
TimerKept(timer) == timer

\* clearTimeout(serverTimeout): an armed timer is cancelled, a timer that has
\* fired stays fired.
TimerAfterLoad(timer) == IF timer = "armed" THEN "cleared" ELSE timer

\* serverProcess.stdout.on("data"): a chunk that matches
\* /Web server started at (http:\/\/localhost:\d+)/ or does not.
StdoutData(matches) ==
    /\ launch.chunks < MaxChunks
    /\ launch' =
         IF matches /\ launch.mainWindow
         THEN [launch EXCEPT !.loads = Append(@, "server"),
                             !.serverLoaded = TRUE,
                             !.timer = TimerAfterLoad(@),
                             !.seen = TRUE,
                             !.chunks = @ + 1]
         ELSE [launch EXCEPT !.seen = @ \/ matches, !.chunks = @ + 1]
    /\ out' = IF matches /\ launch.mainWindow
              THEN [kind |-> "load", url |-> "server"]
              ELSE NoOut
    /\ UNCHANGED <<now, childRef, liveWindows>>
    /\ LaunchFrame

\* The serverTimeout callback, run once the delay has passed (a timer never
\* fires early, and may fire late).
ServerTimeout ==
    /\ launch.timer = "armed"
    /\ now - launch.forkedAt >= SERVER_TIMEOUT_MS
    /\ launch' =
         IF ~launch.serverLoaded /\ launch.mainWindow
         THEN [launch EXCEPT !.timer = "fired", !.loads = Append(@, "error")]
         ELSE [launch EXCEPT !.timer = "fired"]
    /\ out' = IF ~launch.serverLoaded /\ launch.mainWindow
              THEN [kind |-> "load", url |-> "error"]
              ELSE NoOut
    /\ UNCHANGED <<now, childRef, liveWindows>>
    /\ LaunchFrame

\* mainWindow.on("closed"): the child windows the references name are closed
\* (their "closed" handlers null the references) and mainWindow becomes null.
MainWindowClosed ==
    /\ launch.mainWindow
    /\ launch' = [launch EXCEPT !.mainWindow = FALSE]
    /\ liveWindows' = {w \in liveWindows : childRef[w.key] # Some(w.id)}
    /\ childRef' = [key \in WindowKinds |-> None]
    /\ out' = NoOut
    /\ UNCHANGED now
    /\ LaunchFrame

\* The first seconds after the fork: stdout chunks, the timeout, the user
\* closing the main window.
NextLaunch ==
    \/ \E d \in ClockSteps : Advance(d, MaxLaunchTime) /\ UNCHANGED clientVars
    \/ \E matches \in BOOLEAN : StdoutData(matches)
    \/ ServerTimeout
    \/ MainWindowClosed

SpecLaunch == Init /\ [][NextLaunch]_vars

(***************************************************************************)
(* findAvailablePort and checkPort                                         *)
(***************************************************************************)
\* What the port search leaves alone.
PortFrame ==
    /\ ShellFrame
    /\ UNCHANGED <<windowVars, launchVars, fileVars>>
    /\ out' = NoOut

\* findAvailablePort() is called: port = 8989 and the first checkPort(port)
\* is awaited.
FindAvailablePort ==
    /\ search.status = "idle"
    /\ search' = [search EXCEPT !.status = "listen"]
    /\ PortFrame

\* checkPort: the probe server emits "listening" (the port is free) and is
\* being closed.
PortListening ==
    /\ search.status = "listen"
    /\ search' = [search EXCEPT !.status = "closing"]
    /\ PortFrame

\* checkPort: server.close's callback resolves true; findAvailablePort
\* returns the port.
PortClosed ==
    /\ search.status = "closing"
    /\ search' = [search EXCEPT !.status = "returned",
                                !.probed = Append(@, [port |-> search.port, free |-> TRUE])]
    /\ PortFrame

\* Mutant of PastLastPort: the limit reached one port early.
PastLastPortEarly(port) == port >= LAST_PORT

\* if (port > 9000)
PastLastPort(port) == port > LAST_PORT

\* checkPort: the probe server emits "error" (the port is in use) and
\* resolves false; findAvailablePort goes to the next port or throws.
PortInUse ==
    /\ search.status = "listen"
    /\ search' = [status |-> IF PastLastPort(search.port + 1) THEN "thrown" ELSE "listen",
                  port |-> search.port + 1,
                  probed |-> Append(search.probed, [port |-> search.port, free |-> FALSE])]
    /\ PortFrame

\* One call of findAvailablePort with every outcome of each probe.
NextPorts ==
    \/ FindAvailablePort
    \/ PortListening
    \/ PortClosed
    \/ PortInUse

\* Every probe server emits "listening" or "error", and close() calls back.
SpecPorts == Init /\ [][NextPorts]_vars /\ WF_vars(NextPorts)

(***************************************************************************)
(* POST /api/manual-group/add, /remove, /clear                             *)
(***************************************************************************)
\* The uid fields a body carries: absent, 0, two numbers, and a string that
\* spells one of the numbers.
GroupUidFields == {Absent, Num(0), Num(100), Num(200), Str(<<"1", "0", "0">>)}
\* The name fields a body carries (None: absent).
GroupNameFields == {None, Some("Ann")}

\* What the manual-group routes leave alone.
GroupFrame ==
    UNCHANGED <<now, storeVars, bossVars, pauseVars, pending, pauseBase,
                rendererVars, deviceVars, pipelineVars, shellVars>>

\* if (!globalSettings.manualGroup) manualGroup = { enabled: false, members: [] }
GroupOf(g) == IF g = None THEN [enabled |-> FALSE, members |-> <<>>] ELSE Val(g)

\* Mutant of InGroup: the duplicate test never finds the uid.
NeverInGroup(members, uid) == FALSE

\* members.some((m) => m.uid === uid): strict equality, a number and the
\* string that spells it differ.
InGroup(members, uid) == \E k \in 1..Len(members) : members[k].uid = uid

\* name || "Unknown"
MemberName(name) == IF name = None \/ name = Some("") THEN "Unknown" ELSE Val(name)

\* The end of a handler past `await writeFile`: res.json with the group as
\* it is, or, when the write rejects, the handler's promise rejects and
\* nothing is answered. The list is changed before the await and nothing
\* after it touches the list.
GroupAnswer(route, request, written, g) ==
    IF written
    THEN Response(route, request, 200,
                  [code |-> 0, data |-> [enabled |-> g.enabled, members |-> g.members]])
    ELSE [kind |-> "rejected", route |-> route, request |-> request]

\* The 400 answers of the routes.
GroupRefusal(route, request, msg) ==
    Response(route, request, 400, [code |-> 1, msg |-> msg])

\* POST /api/manual-group/add
ManualGroupAdd(uid, name, written) ==
    LET route == "POST /api/manual-group/add"
        request == [uid |-> uid, name |-> name]
        g == GroupOf(manualGroup)
        added == [g EXCEPT !.members = Append(@, [uid |-> uid, name |-> MemberName(name)])]
    IN  /\ IF ~JsTruthy(uid)
           THEN /\ out' = GroupRefusal(route, request, "UID is required")
                /\ UNCHANGED manualGroup
           ELSE IF InGroup(g.members, uid)
           THEN /\ out' = GroupRefusal(route, request, "Player already in group")
                /\ manualGroup' = Some(g)
           ELSE /\ out' = GroupAnswer(route, request, written, added)
                /\ manualGroup' = Some(added)
        /\ GroupFrame

\* POST /api/manual-group/remove
ManualGroupRemove(uid, written) ==
    LET route == "POST /api/manual-group/remove"
        request == [uid |-> uid, name |-> None]
        g == GroupOf(manualGroup)
        keeps(m) == m.uid # uid
        removed == [g EXCEPT !.members = SelectSeq(@, keeps)]
    IN  /\ IF ~JsTruthy(uid)
           THEN /\ out' = GroupRefusal(route, request, "UID is required")
                /\ UNCHANGED manualGroup
           ELSE /\ out' = GroupAnswer(route, request, written, removed)
                /\ manualGroup' = Some(removed)
        /\ GroupFrame

\* POST /api/manual-group/clear
ManualGroupClear(written) ==
    LET route == "POST /api/manual-group/clear"
        cleared == [GroupOf(manualGroup) EXCEPT !.members = <<>>]
    IN  /\ out' = GroupAnswer(route, [uid |-> Absent, name |-> None], written, cleared)
        /\ manualGroup' = Some(cleared)
        /\ GroupFrame

\* Add, remove and clear requests in any order, from an empty group.
NextGroup ==
    \/ \E uid \in GroupUidFields, name \in GroupNameFields, written \in BOOLEAN :
          ManualGroupAdd(uid, name, written)
    \/ \E uid \in GroupUidFields, written \in BOOLEAN : ManualGroupRemove(uid, written)
    \/ \E written \in BOOLEAN : ManualGroupClear(written)

SpecGroup == Init /\ [][NextGroup]_vars

(***************************************************************************)
(* saveWindowSize and saveWindowPosition                                   *)
(***************************************************************************)
\* The windows whose geometry is saved, and the values saved.
SavedTypes == {"main"}
SavedSizes == {[width |-> 800, height |-> 600]}
SavedScales == {None, Some(2)}
SavedPositions == {[x |-> 10, y |-> 20]}

\* What the save functions leave alone.
SaveFrame ==
    /\ ShellFrame
    /\ UNCHANGED <<windowVars, launchVars, portVars>>

\* JSON.parse of the file read; a missing file leaves `settings = {}`, and
\* windowSizes is created when absent.
ParsedSettings(file) == IF file = None THEN EmptySettings ELSE Val(file)

\* settings.windowSizes[windowType] = { ...prev, width, height }, with scale
\* when one was passed; or { ...prev, x, y }.
ApplySave(settings, call) ==
    LET prev == settings.windowSizes[call.windowType]
        entry == IF call.fn = "size"
                 THEN [prev EXCEPT !.width = call.args.width,
                                   !.height = call.args.height,
                                   !.scale = IF call.args.scale # None
                                             THEN call.args.scale ELSE @]
                 ELSE [prev EXCEPT !.x = call.args.x, !.y = call.args.y]
    IN  [settings EXCEPT !.windowSizes[call.windowType] = entry]

\* saveWindowSize(windowType, width, height, scale) up to `await readFile`.
SaveWindowSize(windowType, size, scale) ==
    /\ BagCardinality(saves) < MaxSaves
    /\ saves' = BagAdd(saves,
                  [fn |-> "size", windowType |-> windowType,
                   args |-> [NoEntry EXCEPT !.width = Some(size.width),
                                            !.height = Some(size.height),
                                            !.scale = scale],
                   settings |-> None])
    /\ out' = NoOut
    /\ UNCHANGED settingsFile
    /\ SaveFrame

\* saveWindowPosition(windowType, x, y) up to `await readFile`.
SaveWindowPosition(windowType, pos) ==
    /\ BagCardinality(saves) < MaxSaves
    /\ saves' = BagAdd(saves,
                  [fn |-> "position", windowType |-> windowType,
                   args |-> [NoEntry EXCEPT !.x = Some(pos.x), !.y = Some(pos.y)],
                   settings |-> None])
    /\ out' = NoOut
    /\ UNCHANGED settingsFile
    /\ SaveFrame

\* readFile resolves: the call parses what the file holds now, changes its
\* entry and issues writeFile with the result.
SaveRead(call) ==
    /\ call.settings = None
    /\ saves' = BagAdd(BagRemove(saves, call),
                       [call EXCEPT !.settings = Some(ApplySave(ParsedSettings(settingsFile), call))])
    /\ out' = NoOut
    /\ UNCHANGED settingsFile
    /\ SaveFrame

\* writeFile completes and replaces the file, or rejects (caught and logged).
SaveWrite(call, written) ==
    /\ call.settings # None
    /\ settingsFile' = IF written THEN call.settings ELSE settingsFile
    /\ saves' = BagRemove(saves, call)
    /\ out' = [kind |-> "save", call |-> call, written |-> written]
    /\ SaveFrame

\* Size saves (save-window-size IPC) and position saves (the debounced move
\* handler), none of which waits for another.
NextSaves ==
    \/ \E t \in SavedTypes, size \in SavedSizes, scale \in SavedScales :
          SaveWindowSize(t, size, scale)
    \/ \E t \in SavedTypes, pos \in SavedPositions : SaveWindowPosition(t, pos)
    \/ \E call \in BagToSet(saves) : SaveRead(call)
    \/ \E call \in BagToSet(saves), written \in BOOLEAN : SaveWrite(call, written)

SpecSaves == Init /\ [][NextSaves]_vars

(***************************************************************************)
(* Claims                                                                  *)
(***************************************************************************)
IsTick == out'.kind = "tick"
IsRoute(r) == out'.kind = "response" /\ out'.route = r

\* The boss ids of the table that report combat, read off the table itself.
CombatBosses == {i \in DOMAIN enemies : i \in BOSS_IDS /\ enemies[i].total > 0}
ActiveBossPresent == activeBossId # None /\ Val(activeBossId) \in DOMAIN enemies
SinceSeen == now - Val(lastBossSeenAt)

\* C1: the boss detector calls resetStatistics() exactly once on a tick that
\* takes inBossEncounter from false to true and on no other tick (in
\* particular not on a tick that finds the boss again while the encounter is
\* on); no step other than a tick starts or ends an encounter.
C1_ResetOncePerEntry ==
    [][/\ IsTick => out'.resetCalls =
                        (IF ~inBossEncounter /\ inBossEncounter' THEN 1 ELSE 0)
       /\ (IsTick /\ inBossEncounter) => out'.resetCalls = 0
       /\ ~IsTick => inBossEncounter' = inBossEncounter]_vars

C1_Witness ==
    /\ out.kind = "tick" /\ out.resetCalls = 1 /\ out.from = "Idle"
    /\ inBossEncounter

\* C2 as stated: with the active boss absent, a tick less than 5000 ms after
\* lastBossSeenAt stays Active and a tick 5000 ms or more after it goes Idle
\* with activeBossId and activeBossName null.
C2_Original ==
    [][(IsTick /\ inBossEncounter /\ ~ActiveBossPresent) =>
          /\ SinceSeen < BOSS_LOST_GRACE_MS => inBossEncounter'
          /\ SinceSeen >= BOSS_LOST_GRACE_MS =>
                (~inBossEncounter' /\ activeBossId' = None /\ activeBossName' = None)]_vars

\* C2 amended: the tick stays Active up to and including 5000 ms after
\* lastBossSeenAt and goes Idle, with activeBossId and activeBossName null,
\* only when more than 5000 ms have passed.
C2_GraceStrictlyExceeded ==
    [][(IsTick /\ inBossEncounter /\ ~ActiveBossPresent) =>
          /\ SinceSeen <= BOSS_LOST_GRACE_MS =>
                (inBossEncounter' /\ UNCHANGED <<activeBossId, activeBossName>>)
          /\ SinceSeen > BOSS_LOST_GRACE_MS =>
                (~inBossEncounter' /\ activeBossId' = None /\ activeBossName' = None)]_vars

C2_Witness ==
    /\ out.kind = "tick" /\ inBossEncounter /\ ~ActiveBossPresent
    /\ SinceSeen = BOSS_LOST_GRACE_MS

\* C3: a tick taken while Idle enters Active exactly when some enemy of the
\* table has its id in BOSS_IDS and a total > 0; on entry activeBossId is such
\* an enemy's id, activeBossName its name (the id as a string when it has
\* none) and lastBossSeenAt the time of the tick.
C3_EntryCondition ==
    [][(IsTick /\ ~inBossEncounter) =>
          /\ inBossEncounter' <=> CombatBosses # {}
          /\ inBossEncounter' =>
                /\ activeBossId' # None
                /\ Val(activeBossId') \in CombatBosses
                /\ activeBossName' =
                      Some(IF enemies[Val(activeBossId')].name # ""
                           THEN enemies[Val(activeBossId')].name
                           ELSE ToString(Val(activeBossId')))
                /\ lastBossSeenAt' = Some(now)]_vars

C3_Witness ==
    /\ out.kind = "tick" /\ out.from = "Idle" /\ inBossEncounter
    /\ activeBossName = Some(ToString(Val(activeBossId)))
    /\ lastBossSeenAt = Some(now)

\* C4: while Active, a tick that finds activeBossId in the enemy table sets
\* lastBossSeenAt to the time of the tick and keeps the machine Active with
\* activeBossId and activeBossName unchanged, however long ago the boss was
\* last seen; the grace window is therefore measured from the latest such tick.
C4_SeenRefreshes ==
    [][(IsTick /\ inBossEncounter /\ ActiveBossPresent) =>
          /\ lastBossSeenAt' = Some(now)
          /\ inBossEncounter'
          /\ UNCHANGED <<activeBossId, activeBossName>>]_vars

C4_Witness ==
    /\ out.kind = "tick" /\ out.from = "GracePeriod"
    /\ inBossEncounter /\ ActiveBossPresent
    /\ lastBossSeenAt = Some(now)
IsResume == IsRoute("POST /api/pause") /\ ~out'.request.paused /\ isPaused

C6_PauseIdempotent ==
    [][IsRoute("POST /api/pause") =>
          /\ (out'.request.paused /\ isPaused) =>
                UNCHANGED <<isPaused, lastPausedAt, totalPausedMs>>
          /\ (~out'.request.paused /\ ~isPaused) =>
                UNCHANGED <<isPaused, lastPausedAt, lastResumedAt, totalPausedMs>>]_vars

C6_Witness ==
    /\ out.kind = "response" /\ out.route = "POST /api/pause" /\ out.request.paused
    /\ isPaused /\ lastPausedAt # None /\ Val(lastPausedAt) < now

\* C7: a tick emits no "data" broadcast while isPaused and exactly one while
\* not; a tick taken while paused still detects the boss (it enters the
\* encounter and calls the reset); GET /api/data answers the current store
\* data and encounter ids whether paused or not.
C7_PauseGatesBroadcastOnly ==
    [][/\ IsTick => Len(out'.emits) = (IF isPaused THEN 0 ELSE 1)
       /\ (IsTick /\ isPaused /\ ~inBossEncounter /\ CombatBosses # {}) =>
              (inBossEncounter' /\ out'.resetCalls = 1)
       /\ (IsTick /\ isPaused /\ inBossEncounter /\ ~ActiveBossPresent
             /\ SinceSeen > BOSS_LOST_GRACE_MS) => ~inBossEncounter'
       /\ IsRoute("GET /api/data") =>
              /\ out'.status = 200
              /\ out'.body.data.user = users
              /\ out'.body.data.activeBossId = activeBossId
              /\ out'.body.data.activeBossName = activeBossName
              /\ out'.body.startTime = startTime]_vars

C7_Witness ==
    /\ isPaused /\ out.kind = "tick" /\ out.emits = <<>>
    /\ out.from = "Idle" /\ inBossEncounter /\ out.resetCalls = 1

\* C8: the hook's poll timer is armed exactly when its local isPaused is
\* false: no fetchData call starts while isPaused is true, and once isPaused
\* is false again the timer is armed and polls start again.
C8_TimerArmedIffNotPaused ==
    [][/\ hook.timerArmed <=> ~hook.isPaused
       /\ hook'.timerArmed <=> ~hook'.isPaused
       /\ BagCardinality(polls') > BagCardinality(polls) => ~hook.isPaused
       /\ (~hook.isPaused /\ BagCardinality(polls) < MaxPolls) => ENABLED PollStart]_vars

\* The hook has been through a pause and a resume, and a poll started after
\* the resume (its closure holds the total the resume answered) is in flight.
C8_Witness ==
    /\ ~hook.isPaused /\ hook.timerArmed /\ toggles = EmptyBag
    /\ lastResumedAt # None /\ hook.totalPausedMs = totalPausedMs
    /\ totalPausedMs \notin PersistedPausedMs
    /\ \E c \in BagToSet(polls) : c.totalPausedMs = totalPausedMs

IsSnifferStart == out'.kind = "sniffer" /\ out'.call = "start"

\* C9 as stated: under any interleaving of POST /api/device requests, start()
\* is invoked only after the stop() of the same request has completed, no
\* start() runs while any stop() is in progress, and two start() calls never
\* occur without a completed stop() between them.
C9_Original ==
    [][/\ IsSnifferStart =>
              /\ out'.request.at = "stopped"
              /\ out'.stopsInProgress = 0
              /\ out'.stoppedSinceStart
       /\ ~(sniffer'.stopping > 0 /\ sniffer'.starting > 0)]_vars

IsPollDone == out'.kind = "poll"
PollAnswer == Val(out'.poll.resp)
StartTimeChanged == PollAnswer.startTime # hook.lastStartTime
\* The poll finds combat that the render it was started from had not seen.
StartsEncounter ==
    /\ out'.poll.encounterStartTime = None
    /\ \E i \in DOMAIN PollAnswer.data.user :
          PollAnswer.data.user[i].total_damage + PollAnswer.data.user[i].total_healing
             + PollAnswer.data.user[i].taken_damage > 0
\* Processing an answer sends nothing to the server and changes no store.
PollDoneSendsNothing ==
    /\ UNCHANGED <<storeVars, pauseVars, pending, toggles, sync>>
    /\ BagCardinality(polls') < BagCardinality(polls)

\* C10 as stated: a poll that returns a startTime different from the recorded
\* one records it, leaves encounterStartTime null and the paused baseline 0,
\* calls onServerReset once and sends no clearing or resetting request; a poll
\* that returns the recorded startTime does none of these.
C10_Original ==
    [][IsPollDone =>
          /\ PollDoneSendsNothing
          /\ StartTimeChanged =>
                /\ hook'.lastStartTime = PollAnswer.startTime
                /\ hook'.encounterStartTime = None
                /\ hook'.pausedBaselineMs = 0
                /\ out'.onServerReset = 1
          /\ ~StartTimeChanged =>
                /\ out'.onServerReset = 0
                /\ hook'.lastStartTime = hook.lastStartTime]_vars

\* C10 amended: as stated, except that when the same poll finds combat and was
\* started from a render whose encounterStartTime was null, the encounter
\* start that follows in the same call overrides the reset: encounterStartTime
\* ends as the time of processing and the paused baseline as that render's
\* totalPausedMs. A poll with the recorded startTime never nulls
\* encounterStartTime and changes the baseline only by starting an encounter.
C10_ServerResetDetection ==
    [][IsPollDone =>
          /\ PollDoneSendsNothing
          /\ StartTimeChanged =>
                /\ hook'.lastStartTime = PollAnswer.startTime
                /\ out'.onServerReset = 1
                /\ ~StartsEncounter =>
                      (hook'.encounterStartTime = None /\ hook'.pausedBaselineMs = 0)
                /\ StartsEncounter =>
                      /\ hook'.encounterStartTime = Some(now)
                      /\ hook'.pausedBaselineMs = out'.poll.totalPausedMs
          /\ ~StartTimeChanged =>
                /\ out'.onServerReset = 0
                /\ hook'.lastStartTime = hook.lastStartTime
                /\ hook.encounterStartTime # None => hook'.encounterStartTime # None
                /\ ~StartsEncounter =>
                      UNCHANGED <<hook.encounterStartTime, hook.pausedBaselineMs>>]_vars

\* A zone change during a running encounter has just been noticed: the
\* recorded startTime moved on and the encounter and baseline are cleared.
C10_Witness ==
    /\ out.kind = "poll" /\ out.onServerReset = 1
    /\ out.poll.encounterStartTime # None
    /\ hook.lastStartTime = startTime /\ startTime = now /\ now > 1
    /\ hook.encounterStartTime = None /\ hook.pausedBaselineMs = 0
    /\ hook.players # <<>>

\* C11: GET /api/skill/:uid answers 404 with code 1 exactly when the uid it
\* parses is not a tracked player, otherwise 200 with code 0 and that
\* player's skill data (an empty table included); the request changes no
\* store, pause or encounter state.
C11_SkillRoute ==
    [][IsRoute("GET /api/skill/:uid") =>
          LET uid == parseInt(out'.request.uid)
              known == uid # None /\ Val(uid) \in DOMAIN users
          IN  /\ out'.status = 404 <=> ~known
              /\ ~known => out'.body.code = 1
              /\ known => /\ out'.status = 200 /\ out'.body.code = 0
                          /\ DOMAIN out'.body.data =
                                (IF users[Val(uid)].total_damage > 0 THEN SkillIds ELSE {})
                          /\ \A k \in DOMAIN out'.body.data :
                                out'.body.data[k].totalDamage = users[Val(uid)].total_damage
              /\ UNCHANGED <<storeVars, pauseVars, bossVars>>]_vars

\* A player known by name only is asked for: the answer is an empty table.
C11_Witness ==
    /\ out.kind = "response" /\ out.route = "GET /api/skill/:uid"
    /\ out.status = 200 /\ DOMAIN out.body.data = {}
    /\ out.request.uid = <<"2", "0", "0">>

IsSetUsername == IsRoute("POST /api/set-username")
NumericFields(u) == <<u.total_damage, u.total_healing, u.taken_damage>>
\* No numeric statistic, pause field or encounter field changes.
SetUsernameFrame ==
    /\ \A i \in DOMAIN users : i \in DOMAIN users' /\ NumericFields(users'[i]) = NumericFields(users[i])
    /\ \A i \in DOMAIN users' \ DOMAIN users : NumericFields(users'[i]) = NumericFields(NewUser)
    /\ UNCHANGED <<enemies, startTime, pauseVars, bossVars>>

\* C12 as stated: setName is called exactly when uid and name are both present
\* and uid parses to an integer; otherwise the answer is 400 and no player
\* record changes.
C12_Original ==
    [][IsSetUsername =>
          LET uid == out'.request.uid
              name == out'.request.name
              valid == uid.t # "absent" /\ name # None /\ parseIntField(uid) # None
          IN  /\ valid => (out'.status = 200 /\ users' = setName(users, Val(parseIntField(uid)), Val(name)))
              /\ ~valid => (out'.status = 400 /\ users' = users)
              /\ SetUsernameFrame]_vars

\* C12 amended: setName is called exactly when uid and name are both truthy
\* (a uid of 0 and an empty name count as missing) and uid parses to an
\* integer; otherwise the answer is 400 and no player record changes; no
\* numeric statistic, pause field or encounter field changes either way.
C12_SetUsername ==
    [][IsSetUsername =>
          LET uid == out'.request.uid
              name == out'.request.name
              valid == /\ JsTruthy(uid) /\ name # None /\ Val(name) # ""
                       /\ parseIntField(uid) # None
          IN  /\ valid => (out'.status = 200 /\ users' = setName(users, Val(parseIntField(uid)), Val(name)))
              /\ ~valid => (out'.status = 400 /\ users' = users)
              /\ SetUsernameFrame]_vars

\* A fighting player has just been named: the name is there, the damage kept.
C12_Witness ==
    /\ out.kind = "response" /\ out.route = "POST /api/set-username" /\ out.status = 200
    /\ out.request.uid = Num(100)
    /\ 100 \in DOMAIN users /\ users[100].name = "Ann" /\ users[100].total_damage > 0

\* C13: after every damage event applied to a fresh player,
\* normal + critical + lucky + crit_lucky = total, hpLessen standing outside
\* the sum; a hit raises its own category and the total by its amount.
C13_BucketsSumToTotal ==
    /\ stats.normal + stats.critical + stats.lucky + stats.crit_lucky = stats.total
    /\ [][out'.kind = "event" =>
             /\ stats'.total = stats.total + out'.event.amount
             /\ stats'.hpLessen = stats.hpLessen + out'.event.hpLessen
             /\ stats'.normal + stats'.critical + stats'.lucky + stats'.crit_lucky
                   = stats'.total
             /\ (out'.event.critical /\ ~out'.event.lucky) =>
                   stats'.critical = stats.critical + out'.event.amount]_vars

\* Hits of all four categories and a mitigated amount have been counted.
C13_Witness ==
    /\ stats.normal > 0 /\ stats.critical > 0 /\ stats.lucky > 0 /\ stats.crit_lucky > 0
    /\ stats.hpLessen > 0 /\ stats.total = MaxStatTotal

\* A step that calls resetStatistics(): GET /api/reset, or a tick entering an
\* encounter. A step that calls clearAll(): GET /api/clear.
CallsResetStatistics ==
    \/ pending'["reset"] > pending["reset"]
    \/ IsTick /\ out'.resetCalls = 1
CallsClearAll == pending'["clear"] > pending["clear"]

\* C14: resetStatistics(), called by GET /api/reset or by the boss detector,
\* zeroes every numeric field of every tracked uid and keeps every uid
\* tracked with its name and profession; clearAll(), called by
\* GET /api/clear, leaves no record.
C14_ResetKeepsIdentities ==
    [][/\ CallsResetStatistics =>
              /\ DOMAIN users' = DOMAIN users
              /\ \A i \in DOMAIN users :
                    /\ NumericFields(users'[i]) = <<0, 0, 0>>
                    /\ users'[i].name = users[i].name
                    /\ users'[i].profession = users[i].profession
              /\ DOMAIN enemies' = DOMAIN enemies
              /\ \A i \in DOMAIN enemies : enemies'[i].total = 0
       /\ CallsClearAll => (DOMAIN users' = {} /\ DOMAIN enemies' = {})]_vars

\* GET /api/reset has just reset a named player of known profession who had
\* dealt damage (the enemy hit is tracked with total 0).
C14_Witness ==
    /\ pending["reset"] = 1
    /\ 783 \in DOMAIN enemies /\ enemies[783].total = 0
    /\ 100 \in DOMAIN users /\ users[100].name = "Ann" /\ users[100].profession = "Mage"
    /\ NumericFields(users[100]) = <<0, 0, 0>>

IsSegment == out'.kind = "segment"
Arrived == {arrivals[i] : i \in DOMAIN arrivals}
\* What in-order delivery of the bytes received so far decodes to.
InOrder == Parse(SubSeq(sent, 1, flow.expected))

\* C15: whatever the order in which the two halves of a message arrive, the
\* events decoded and the bytes carried over are those of in-order delivery
\* of the same bytes, and once both halves have arrived the message's event
\* is there exactly as in order; a segment whose bytes were all delivered
\* before changes nothing and yields no second event.
C15_OutOfOrderSameEvents ==
    [][/\ events' = InOrder'.events
       /\ flow'.carry = InOrder'.carry
       /\ (\A seg \in wire' : seg.seq \in Arrived') =>
              /\ flow'.expected = Len(sent')
              /\ DOMAIN flow'.buffer = {}
              /\ events' = Parse(sent').events
       /\ (IsSegment /\ out'.segment.seq + Len(out'.segment.bytes) <= flow.expected) =>
              UNCHANGED <<flow, events>>]_vars

\* The second half arrived first, then the first half, then the first half
\* again: one event.
C15_Witness ==
    /\ Len(arrivals) = 3 /\ arrivals[1] > 0 /\ arrivals[2] = 0 /\ arrivals[3] = 0
    /\ sent = InfoMessage
    /\ events = <<[type |-> "EntityInfo", value |-> <<65>>]>>
    /\ flow.carry = <<>>

\* The event a valid message stands for.
EventOf(m) ==
    IF m = DamageMessage THEN [type |-> "DamageDealt", value |-> <<5>>]
    ELSE [type |-> "EntityInfo", value |-> <<65>>]

ReportsEncounter ==
    \/ IsTick /\ out'.emits # <<>> /\ out'.emits[1].activeBossId # None
    \/ IsRoute("GET /api/data") /\ out'.body.data.activeBossId # None

\* C17 as stated: when a broadcast or response reports the new activeBossId,
\* the entry actions have taken effect: no entry continuation is still to
\* run with the previous period's pause accounting in place.
C17_Original ==
    [][(ReportsEncounter /\ pending'["boss"] > 0) =>
          (totalPausedMs' = 0 /\ lastPausedAt' = None /\ lastResumedAt' = None)]_vars

\* C18: in every state of the boss detector, inBossEncounter holds exactly
\* when activeBossId is non-null, exactly when activeBossName is non-null and
\* exactly when lastBossSeenAt is non-null, and a non-null activeBossId is a
\* member of BOSS_IDS.
C18_EncounterFieldsAgree ==
    /\ inBossEncounter <=> activeBossId # None
    /\ inBossEncounter <=> activeBossName # None
    /\ inBossEncounter <=> lastBossSeenAt # None
    /\ activeBossId # None => Val(activeBossId) \in BOSS_IDS

\* An encounter with a named boss is on while an ordinary enemy is in combat.
C18_Witness ==
    /\ inBossEncounter /\ activeBossId = Some(425) /\ activeBossName = Some("Tina")
    /\ lastBossSeenAt # None
    /\ 999 \in DOMAIN enemies /\ enemies[999].total > 0

\* C19: a tick taken while the encounter is on and the table holds an entry
\* with activeBossId keeps the encounter on and activeBossId and
\* activeBossName as they are, whatever that entry's total (0 included), and
\* calls no reset, whichever other boss reports combat.
C19_ActiveBossSticks ==
    [][(IsTick /\ inBossEncounter /\ ActiveBossPresent) =>
          /\ inBossEncounter'
          /\ activeBossId' = activeBossId
          /\ activeBossName' = activeBossName
          /\ out'.resetCalls = 0
          /\ pending' = pending]_vars

\* A tick found the active boss with total 0 (after the reset of the entry)
\* while another boss had combat, long after the entry.
C19_Witness ==
    /\ out.kind = "tick" /\ out.from # "Idle" /\ out.resetCalls = 0
    /\ inBossEncounter /\ ActiveBossPresent
    /\ enemies[Val(activeBossId)].total = 0
    /\ \E i \in CombatBosses : i # Val(activeBossId)
    /\ now > BOSS_LOST_GRACE_MS + 1

\* C20 as stated: in every state reached by pause and resume requests,
\* GET /api/reset, GET /api/clear and boss auto-resets, isPaused holds exactly
\* when lastPausedAt is non-null.
C20_Original == isPaused <=> lastPausedAt # None

\* A step that answers GET /api/reset or GET /api/clear.
AnswersResetOrClear == IsRoute("GET /api/reset") \/ IsRoute("GET /api/clear")

\* A step that is the first half (up to the await) of one of the two handlers.
EntersResetOrClear ==
    pending'["reset"] > pending["reset"] \/ pending'["clear"] > pending["clear"]

\* C21: GET /api/reset and GET /api/clear leave the pause accounting at
\* totalPausedMs 0 and lastPausedAt, lastResumedAt null, change neither
\* isPaused nor the encounter state in any of their steps, and answer code 0
\* whether or not the settings write succeeded.
C21_ResetZeroesPauseAccounting ==
    [][/\ AnswersResetOrClear =>
            /\ totalPausedMs' = 0
            /\ lastPausedAt' = None
            /\ lastResumedAt' = None
            /\ UNCHANGED <<isPaused, bossVars>>
            /\ out'.status = 200
            /\ out'.body.code = 0
       /\ EntersResetOrClear => UNCHANGED <<pauseVars, bossVars>>]_vars

\* GET /api/reset answered code 0 after a failed settings write, during a
\* pause (lastPausedAt was set) and a boss encounter.
C21_Witness ==
    /\ out.kind = "response" /\ out.route = "GET /api/reset"
    /\ out.settingsWritten = FALSE /\ out.body.code = 0
    /\ isPaused /\ lastPausedAt = None /\ totalPausedMs = 0
    /\ inBossEncounter

\* The device request that the step answers.
AnsweredDeviceRequests ==
    {r \in BagToSet(deviceReqs) : deviceReqs' = BagRemove(deviceReqs, r)}

\* C22 as stated: a POST /api/device that answers 500 leaves
\* globalSettings.selectedDevice and the running capture as they were before
\* the request; one that answers 200 leaves selectedDevice at the requested
\* selector with the sniffer capturing on it ("auto" when none was sent).
C22_Original ==
    [][IsRoute("POST /api/device") =>
          \A r \in AnsweredDeviceRequests :
             IF out'.status = 500
             THEN /\ selectedDevice' = r.before.selectedDevice
                  /\ sniffer'.capturing = r.before.capturing
             ELSE /\ selectedDevice' = r.selectedDevice
                  /\ sniffer'.capturing = Some(StartSelector(r.selectedDevice))]_vars

\* The polled data shows combat: some damage, healing or damage taken.
AnswerShowsCombat ==
    \E i \in DOMAIN PollAnswer.data.user :
       PollAnswer.data.user[i].total_damage + PollAnswer.data.user[i].total_healing
          + PollAnswer.data.user[i].taken_damage > 0

\* C23 as stated: encounterStartTime changes only when a poll is processed;
\* a poll sets it only when it was null (or the poll saw a changed server
\* startTime) and the data shows combat, and a poll that returns the recorded
\* startTime leaves a set encounterStartTime as it is, also when the poll
\* was started before an earlier poll's answer was processed.
C23_Original ==
    [][/\ hook'.encounterStartTime # hook.encounterStartTime => IsPollDone
       /\ IsPollDone =>
             /\ (hook'.encounterStartTime # None
                    /\ hook'.encounterStartTime # hook.encounterStartTime) =>
                   /\ AnswerShowsCombat
                   /\ hook.encounterStartTime = None \/ StartTimeChanged
             /\ (hook.encounterStartTime # None /\ ~StartTimeChanged) =>
                   hook'.encounterStartTime = hook.encounterStartTime]_vars

\* The live child windows of a kind.
LiveOfKind(key) == {w \in liveWindows : w.key = key}

\* C24 as stated: after every step of the main process there is at most one
\* live window per child-window kind, the reference of the kind points to it
\* and is null when there is none (so also when two open requests of a kind
\* arrived before the first window was created); an open request that finds
\* a window focuses it and creates nothing; a close leaves the reference of
\* the kind null.
C24_Original ==
    [][out'.kind = "window" =>
          /\ \A key \in WindowKinds :
                /\ Cardinality(LiveOfKind(key)') <= 1
                /\ \A w \in LiveOfKind(key)' : childRef'[key] = Some(w.id)
                /\ childRef'[key] # None => LiveOfKind(key)' # {}
          /\ out'.call = "focus" => UNCHANGED <<liveWindows, childRef, created, opens>>
          /\ out'.call = "closed" => childRef'[out'.key] = None]_vars

\* The step loads the error page, or the server's page, into the main window.
LoadsErrorPage == out'.kind = "load" /\ out'.url = "error"
LoadsServerPage == out'.kind = "load" /\ out'.url = "server"

\* C25: the error page is loaded only when at least 10 s have passed since
\* the fork and no stdout chunk has matched 'Web server started at'; a step
\* that loads the server URL leaves the timeout unarmed, and once the server
\* URL has been loaded no step loads the error page.
C25_TimeoutOnlyWithoutServer ==
    [][/\ LoadsErrorPage =>
             /\ now - launch.forkedAt >= SERVER_TIMEOUT_MS
             /\ ~launch.seen
             /\ ~launch.serverLoaded
       /\ LoadsServerPage => launch'.serverLoaded /\ launch'.timer # "armed"
       /\ launch.serverLoaded => ~LoadsErrorPage /\ launch'.timer # "armed"]_vars

\* The server announced itself in time, its page was loaded, and the 10 s
\* have since passed with no other page loaded.
C25_Witness ==
    /\ launch.loads = <<"server">> /\ launch.serverLoaded /\ launch.timer = "cleared"
    /\ now - launch.forkedAt >= SERVER_TIMEOUT_MS
    /\ launch.mainWindow

\* The ports findAvailablePort may return.
PortRange == FIRST_PORT..LAST_PORT

\* The probes made so far went up from 8989 one port at a time, stayed
\* within the range, and all but possibly the last found the port in use.
ProbesAscending ==
    /\ Len(search.probed) <= Cardinality(PortRange)
    /\ \A i \in 1..Len(search.probed) :
          /\ search.probed[i].port = FIRST_PORT + i - 1
          /\ search.probed[i].port \in PortRange
          /\ i < Len(search.probed) => ~search.probed[i].free

\* C26: findAvailablePort probes 8989, 8990, ... in ascending order; when it
\* returns, the port is the first one checkPort reported free and lies in
\* 8989..9000; when it throws, all 12 ports were probed and found in use; it
\* makes at most 12 probes and every call ends by returning or throwing.
C26_PortSearch ==
    /\ [](/\ ProbesAscending
          /\ search.status = "returned" =>
                /\ search.port \in PortRange
                /\ search.probed[Len(search.probed)] = [port |-> search.port, free |-> TRUE]
          /\ search.status = "thrown" =>
                /\ Len(search.probed) = Cardinality(PortRange)
                /\ \A i \in 1..Len(search.probed) : ~search.probed[i].free
          /\ search.status \in {"listen", "closing"} =>
                /\ search.port \in PortRange
                /\ \A i \in 1..Len(search.probed) : ~search.probed[i].free)
    /\ <>(search.status \in {"returned", "thrown"})

\* The last port of the range was returned after eleven ports in use.
C26_Witness ==
    /\ search.status = "returned" /\ search.port = LAST_PORT
    /\ Len(search.probed) = 12

\* The enemies of a table with combat.
WithCombat(tbl) == {i \in DOMAIN tbl : tbl[i].total > 0}

\* C27: the active enemy GET /api/data reports is null exactly when no enemy
\* of the table has total > 0; otherwise it carries the id, name (the id as a
\* string when the name is empty), type and isBoss of an enemy with combat
\* whose total no other enemy exceeds; computing it leaves the table as it
\* was.
C27_ActiveEnemyIsMaximal ==
    [][IsRoute("GET /api/data") =>
          LET ae == out'.body.data.activeEnemy
              tbl == enemies
          IN  /\ ae.activeEnemyId = None <=> WithCombat(tbl) = {}
              /\ WithCombat(tbl) = {} =>
                    /\ ae.activeEnemyName = None /\ ae.activeEnemyType = None
                    /\ ae.activeEnemyIsBoss = FALSE
              /\ WithCombat(tbl) # {} =>
                    LET id == Val(ae.activeEnemyId)
                    IN  /\ id \in WithCombat(tbl)
                        /\ \A j \in DOMAIN tbl : tbl[id].total >= tbl[j].total
                        /\ ae.activeEnemyName =
                              Some(IF tbl[id].name # "" THEN tbl[id].name ELSE ToString(id))
                        /\ ae.activeEnemyType = tbl[id].type
                        /\ ae.activeEnemyIsBoss = (id \in BOSS_IDS)
              /\ enemies' = enemies]_vars

\* GET /api/data reported the unnamed enemy 783 as active while enemy 425,
\* listed before it, had less damage and enemy 999 none.
C27_Witness ==
    /\ out.kind = "response" /\ out.route = "GET /api/data"
    /\ out.body.data.activeEnemy.activeEnemyId = Some(783)
    /\ out.body.data.activeEnemy.activeEnemyName = Some("783")
    /\ 425 \in DOMAIN enemies /\ enemies[425].total = 1 /\ enemies[783].total = 2
    /\ 999 \in DOMAIN enemies /\ enemies[999].total = 0

\* The player table of the answer a poll processes, its players with damage,
\* and the sort key of a row under the options the poll was started with.
PolledUsers == PollAnswer.data.user
PolledActive == {i \in DOMAIN PolledUsers : PolledUsers[i].total_damage > 0}
RowKey(row) == SortKey(row.user, out'.poll.sortColumn)
Ordered(x, y) == IF out'.poll.sortDirection = "asc" THEN x <= y ELSE x >= y

\* C28: the list a processed poll publishes holds only players of the answer
\* with total damage > 0, each once and with its data, in the order of the
\* sort column and direction the poll was started with; in nearby view
\* without showAllPlayers it holds the first 10 of that order (all when there
\* are fewer), otherwise all of them; it is empty when no player dealt
\* damage.
C28_PublishedPlayers ==
    [][IsPollDone =>
          LET rows == hook'.players
              listed == {rows[k].uid : k \in 1..Len(rows)}
              capped == out'.poll.viewMode = "nearby" /\ ~out'.poll.showAllPlayers
          IN  /\ listed \subseteq PolledActive
              /\ Cardinality(listed) = Len(rows)
              /\ \A k \in 1..Len(rows) : rows[k].user = PolledUsers[rows[k].uid]
              /\ \A k, l \in 1..Len(rows) : k < l => Ordered(RowKey(rows[k]), RowKey(rows[l]))
              /\ Len(rows) = IF capped /\ Cardinality(PolledActive) > 10
                             THEN 10 ELSE Cardinality(PolledActive)
              /\ \A i \in PolledActive \ listed : \A k \in 1..Len(rows) :
                    Ordered(RowKey(rows[k]), SortKey(PolledUsers[i], out'.poll.sortColumn))
              /\ PolledActive = {} => rows = <<>>]_vars

\* Twelve players dealt damage; the nearby list shows ten of them in
\* ascending order of healing, keys differing, and leaves two out.
C28_Witness ==
    /\ out.kind = "poll" /\ out.poll.viewMode = "nearby" /\ ~out.poll.showAllPlayers
    /\ out.poll.sortColumn = "totalHeal" /\ out.poll.sortDirection = "asc"
    /\ Len(hook.players) = 10
    /\ Cardinality({i \in DOMAIN users : users[i].total_damage > 0}) = 12
    /\ hook.players[1].user.total_healing < hook.players[10].user.total_healing

\* The members of the manual group, and the request a group route handled.
Members == GroupOf(manualGroup).members
GroupStep(route) ==
    out'.kind \in {"response", "rejected"} /\ out'.route = route
UidListed(members, uid) == \E k \in 1..Len(members) : members[k].uid = uid

C30_Original ==
    [][(out'.kind = "save" /\ out'.written) =>
          LET call == out'.call
              before == ParsedSettings(settingsFile)
              after == ParsedSettings(settingsFile')
              was == before.windowSizes[call.windowType]
              is == after.windowSizes[call.windowType]
          IN  /\ after.selectedDevice = before.selectedDevice
              /\ \A t \in WindowTypes \ {call.windowType} :
                    after.windowSizes[t] = before.windowSizes[t]
              /\ call.fn = "size" =>
                    /\ is.width = call.args.width /\ is.height = call.args.height
                    /\ is.scale = (IF call.args.scale # None THEN call.args.scale ELSE was.scale)
                    /\ is.x = was.x /\ is.y = was.y
              /\ call.fn = "position" =>
                    /\ is.x = call.args.x /\ is.y = call.args.y
                    /\ is.width = was.width /\ is.height = was.height
                    /\ is.scale = was.scale]_vars
====
